---- MODULE Spec2Model ----
(***************************************************************************)
(* TALON: assignment of aligned reads to known or novel transcripts, and   *)
(* the flush of the novel entities to the TALON database.                  *)
(*                                                                         *)
(* The model follows src/archived/talon.py (the run: main,                 *)
(* identify_sam_transcripts, make_novel_transcript, update_database) and   *)
(* src/initialize_talon_database.py (the database the run starts from).    *)
(* The modules talon.py imports but the repository snapshot does not hold  *)
(* (vertex, edge, edgetree, gene, genetree, transcript_match_tracker,      *)
(* sam_transcript) are modelled from their documented contract.            *)
(*                                                                         *)
(* Identifiers are naturals.  talon.py writes some of them through str()   *)
(* (obs_id, novel_transcript_id, d_id); str() is injective on naturals and *)
(* the INTEGER PRIMARY KEY columns convert the text back, so the model     *)
(* keeps the number.                                                       *)
(***************************************************************************)
EXTENDS Integers, Sequences, FiniteSets, TLC

\* ------------------------------------------------------------------------
\* Bounds of the model
\* ------------------------------------------------------------------------
\* genomic positions are 1..MaxPos
MaxPos == 5
\* the highest coordinate of a call of match_splice_vertices
MaxSplicePos == 6
\* reads processed in one run
MaxReads == 2
\* datasets (config lines) in one run
MaxDatasets == 2
\* batched inserts that may fail in one flush
MaxInsertFailures == 1
\* rows per batched insert (main passes batch_size = 10000)
BatchSize == 2

\* ------------------------------------------------------------------------
\* Generic helpers
\* ------------------------------------------------------------------------
SetMin(S) == CHOOSE x \in S : \A y \in S : x <= y

SetMax(S) == CHOOSE x \in S : \A y \in S : x >= y

Range(s) == {s[i] : i \in 1..Len(s)}

Reverse(s) == [i \in 1..Len(s) |-> s[Len(s) + 1 - i]]

Abs(x) == IF x < 0 THEN 0 - x ELSE x

\* the elements of a finite set of naturals, ascending
RECURSIVE SortedSeq(_)
SortedSeq(S) == IF S = {} THEN <<>> ELSE <<SetMin(S)>> \o SortedSeq(S \ {SetMin(S)})

\* body(value), the value computed once
With(value, body(_)) == CHOOSE result \in {body(v) : v \in {value}} : TRUE

\* ------------------------------------------------------------------------
\* Fixed vocabulary
\* ------------------------------------------------------------------------
Positions == 1..MaxPos

Chromosomes == {"chr1"}

Strands == {"+", "-"}

GenomeBuild == "toy_build"

DatasetNames == {"d1", "d2"}

\* "no value": Python's None
None == 0

\* the dictionary keys of talon.py's in-memory counter
CounterKeys == {"genes", "transcripts", "vertices", "edges", "datasets", "observed"}

\* the category (and table) name in the database of each in-memory counter
CategoryOf(key) ==
    CASE key = "genes" -> "genes"
      [] key = "transcripts" -> "transcripts"
      [] key = "vertices" -> "vertex"
      [] key = "edges" -> "edge"
      [] key = "datasets" -> "dataset"
      [] key = "observed" -> "observed"

\* the rows of the counters table of the database a run works on: the six
\* categories talon.py reads and writes (get_counters, update_counter) and
\* genome_build.  The rows add_counter_table itself inserts are
\* add_counter_table below
CounterCategories == {CategoryOf(k) : k \in CounterKeys} \cup {"genome_build"}

\* every table of the database the run writes or counts
TableNames == CounterCategories \cup {"location", "abundance", "gene_annotations", "transcript_annotations", "exon_annotations"}

\* ------------------------------------------------------------------------
\* The annotation the database was initialized from
\* (src/initialize_talon_database.py)
\* ------------------------------------------------------------------------
\* one transcript entry of the GTF file, its exons as <<left, right>> pairs
GtfTranscript(gene, strand, exons) == [gene_id |-> gene, chromosome |-> "chr1", strand |-> strand, exons |-> exons]

\* the annotations a run may start from: the genes in file order and their
\* transcripts in file order
Annotations ==
    { [genes |-> <<>>, transcripts |-> <<>>],
      [genes |-> <<"gA">>, transcripts |-> <<GtfTranscript("gA", "-", << <<1, 2>>, <<3, 4>> >>)>>],
      [genes |-> <<"gA">>, transcripts |-> <<GtfTranscript("gA", "+", << <<1, 2>>, <<3, 4>> >>), GtfTranscript("gA", "+", << <<3, 4>> >>)>>],
      [genes |-> <<"gA", "gB">>, transcripts |-> <<GtfTranscript("gA", "+", << <<1, 2>> >>), GtfTranscript("gB", "+", << <<1, 2>>, <<3, 4>> >>)>>],
      [genes |-> <<"gA", "gB">>, transcripts |-> <<GtfTranscript("gA", "+", << <<3, 4>> >>), GtfTranscript("gB", "+", << <<1, 2>> >>)>>],
      [genes |-> <<"gA", "gB">>, transcripts |-> <<GtfTranscript("gA", "+", << <<1, 2>>, <<3, 4>> >>), GtfTranscript("gB", "+", << <<1, 2>>, <<3, 4>> >>)>>] }

\* create_vertex, the key without the gene: one vertex per coordinate
vertex_keyname_unscoped(gene_id, genome_build, chromosome, pos, strand) ==
    genome_build \o "," \o chromosome \o "," \o ToString(pos) \o "," \o strand

\* create_vertex: the dictionary key of a vertex,
\* ",".join([str(gene_id), genome_build, chromosome, str(pos), strand])
vertex_keyname(gene_id, genome_build, chromosome, pos, strand) ==
    ToString(gene_id) \o "," \o genome_build \o "," \o chromosome \o "," \o ToString(pos) \o "," \o strand

\* create_vertex: the vertex stored under the key of (gene, build, chromosome,
\* position, strand), minted on first use.  vertices = [counter, rows]; the
\* rows stand for the entries of the dictionary, each under its key
create_vertex(gene_id, genome_build, chromosome, pos, strand, vertices) ==
    LET query == vertex_keyname(gene_id, genome_build, chromosome, pos, strand)
        hit == {v \in vertices.rows : vertex_keyname(v.gene_id, v.genome_build, v.chromosome, v.pos, v.strand) = query}
        vertex_id == vertices.counter + 1
        new_vertex == [vertex_ID |-> vertex_id, gene_id |-> gene_id, genome_build |-> genome_build, chromosome |-> chromosome, pos |-> pos, strand |-> strand]
    IN  IF hit # {}
        THEN [id |-> (CHOOSE v \in hit : TRUE).vertex_ID, vertices |-> vertices]
        ELSE [id |-> vertex_id, vertices |-> [counter |-> vertices.counter + 1, rows |-> vertices.rows \cup {new_vertex}]]

\* create_edge, the key without the edge type: one edge per pair of vertices
edge_keyname_untyped(vertex_1, vertex_2, edge_type) ==
    ToString(vertex_1) \o "," \o ToString(vertex_2)

\* create_edge: the dictionary key of an edge,
\* ",".join([str(vertex_1), str(vertex_2), edge_type])
edge_keyname(vertex_1, vertex_2, edge_type) ==
    ToString(vertex_1) \o "," \o ToString(vertex_2) \o "," \o edge_type

\* create_edge: the edge stored under the key of (v1, v2, type), minted on
\* first use.  edges = [counter, rows]
create_edge(vertex_1, vertex_2, edge_type, edges) ==
    LET query == edge_keyname(vertex_1, vertex_2, edge_type)
        hit == {e \in edges.rows : edge_keyname(e.v1, e.v2, e.edge_type) = query}
        edge_id == edges.counter + 1
        new_edge == [edge_ID |-> edge_id, v1 |-> vertex_1, v2 |-> vertex_2, edge_type |-> edge_type]
    IN  IF hit # {}
        THEN [id |-> (CHOOSE e \in hit : TRUE).edge_ID, edges |-> edges]
        ELSE [id |-> edge_id, edges |-> [counter |-> edges.counter + 1, rows |-> edges.rows \cup {new_edge}]]

\* process_transcript, first loop: the two boundary vertices of every exon
RECURSIVE transcript_vertices(_, _, _, _, _)
transcript_vertices(transcript, gene_id, genome_build, i, acc) ==
    IF i > Len(transcript.exons) THEN acc
    ELSE LET exon == transcript.exons[i]
         IN  With(create_vertex(gene_id, genome_build, transcript.chromosome, exon[1], transcript.strand, acc.vertices), LAMBDA r1 :
             With(create_vertex(gene_id, genome_build, transcript.chromosome, exon[2], transcript.strand, r1.vertices), LAMBDA r2 :
             With([ids |-> acc.ids \o <<r1.id, r2.id>>, vertices |-> r2.vertices], LAMBDA next :
             transcript_vertices(transcript, gene_id, genome_build, i + 1, next))))

\* process_transcript, the edge type when the path starts with an intron
next_edge_type_intron_first(prev_edge_type) ==
    IF prev_edge_type = "intron" THEN "exon" ELSE "intron"

\* process_transcript: the type of the next edge of the path, an exon first
\* and after an intron, an intron after an exon
next_edge_type(prev_edge_type) ==
    IF prev_edge_type = "None" \/ prev_edge_type = "intron" THEN "exon" ELSE "intron"

\* process_transcript, second loop: one edge between consecutive vertices,
\* exon and intron alternating, the first an exon; the annotations of the
\* next exon of the list go to every exon edge (add_exon_annotations_to_db).
\* acc = [ids, edges, prev_edge_type, exon_index, exon_annotations]
RECURSIVE transcript_edges(_, _, _, _)
transcript_edges(vs, exons, i, acc) ==
    IF i > Len(vs) - 1 THEN acc
    ELSE LET edge_type == next_edge_type(acc.prev_edge_type)
         IN  With(create_edge(vs[i], vs[i + 1], edge_type, acc.edges), LAMBDA r :
             With([ids |-> acc.ids \o <<r.id>>, edges |-> r.edges, prev_edge_type |-> edge_type,
                   exon_index |-> IF edge_type = "exon" THEN acc.exon_index + 1 ELSE acc.exon_index,
                   exon_annotations |-> IF edge_type = "exon"
                                        THEN acc.exon_annotations \cup {[ID |-> r.id, exon |-> exons[acc.exon_index]]}
                                        ELSE acc.exon_annotations], LAMBDA next :
             transcript_edges(vs, exons, i + 1, next)))

\* process_transcript: the path of a transcript and the tables it grows; a
\* minus-strand transcript walks its vertices and its exons from the highest
\* coordinate
process_transcript(transcript, gene_id, genome_build, vertices, edges) ==
    With(transcript_vertices(transcript, gene_id, genome_build, 1, [ids |-> <<>>, vertices |-> vertices]), LAMBDA tv :
    With(IF transcript.strand = "-" THEN Reverse(tv.ids) ELSE tv.ids, LAMBDA ordered :
    With(IF transcript.strand = "-" THEN Reverse(transcript.exons) ELSE transcript.exons, LAMBDA exons :
    With(transcript_edges(ordered, exons, 1, [ids |-> <<>>, edges |-> edges, prev_edge_type |-> "None", exon_index |-> 1, exon_annotations |-> {}]), LAMBDA te :
    [transcript_path |-> te.ids, transcript_vertices |-> ordered, vertices |-> tv.vertices, edges |-> te.edges,
     exon_annotations |-> te.exon_annotations]))))

\* add_genes: database gene ids in dictionary order, counter + 1 onwards
gene_id_map(annotation, native) == CHOOSE i \in 1..Len(annotation.genes) : annotation.genes[i] = native

\* add_transcripts: the loop over the transcripts.
\* acc = [transcripts, vertices, edges]
RECURSIVE add_transcripts(_, _, _)
add_transcripts(annotation, i, acc) ==
    IF i > Len(annotation.transcripts) THEN acc
    ELSE LET transcript == annotation.transcripts[i]
             db_gene_id == gene_id_map(annotation, transcript.gene_id)
         IN  With(process_transcript(transcript, db_gene_id, GenomeBuild, acc.vertices, acc.edges), LAMBDA r :
             With([transcript_id |-> i, gene_id |-> db_gene_id, path |-> r.transcript_path,
                   start_vertex |-> r.transcript_vertices[1],
                   end_vertex |-> r.transcript_vertices[Len(r.transcript_vertices)],
                   n_exons |-> Len(transcript.exons)], LAMBDA row :
             With([transcripts |-> acc.transcripts \cup {row}, vertices |-> r.vertices, edges |-> r.edges], LAMBDA next :
             add_transcripts(annotation, i + 1, next))))

\* populate_db on a fresh database: every table and the counters table after
\* the commit.  The transcripts table has the columns talon.py inserts
\* (batch_add_transcripts); genome_build holds the one build of
\* add_genome_table.
populate_db(annotation) ==
    With(add_transcripts(annotation, 1, [transcripts |-> {}, vertices |-> [counter |-> 0, rows |-> {}], edges |-> [counter |-> 0, rows |-> {}]]), LAMBDA r :
    LET tables == [t \in TableNames |->
            CASE t = "genes" -> {[gene_ID |-> g] : g \in 1..Len(annotation.genes)}
              [] t = "transcripts" -> r.transcripts
              [] t = "vertex" -> {[vertex_ID |-> v.vertex_ID, gene_id |-> v.gene_id] : v \in r.vertices.rows}
              [] t = "location" -> {[location_id |-> v.vertex_ID, genome_build |-> v.genome_build, chromosome |-> v.chromosome, position |-> v.pos, strand |-> v.strand] : v \in r.vertices.rows}
              [] t = "edge" -> r.edges.rows
              [] t = "genome_build" -> {[build_ID |-> 1, name |-> GenomeBuild]}
              [] OTHER -> {}]
        counters == [c \in CounterCategories |->
            CASE c = "genes" -> Len(annotation.genes)
              [] c = "transcripts" -> Len(annotation.transcripts)
              [] c = "vertex" -> r.vertices.counter
              [] c = "edge" -> r.edges.counter
              [] c = "genome_build" -> 1
              [] OTHER -> 0]
    IN  [counters |-> counters, tables |-> tables])

\* ------------------------------------------------------------------------
\* read_annotation: the in-memory structures of a run (src/archived/talon.py)
\* ------------------------------------------------------------------------
\* get_counters: the in-memory counter, one key per category read
get_counters(db) == [k \in CounterKeys |-> db.counters[CategoryOf(k)]]

\* the location row of a vertex in the genome build of the run
LocationOf(db, vertex_id) == CHOOSE l \in db.tables["location"] : l.location_id = vertex_id /\ l.genome_build = GenomeBuild

\* read_vertices: one Vertex per vertex row that has a location in the build
read_vertices(db) ==
    {[identifier |-> v.vertex_ID, chromosome |-> LocationOf(db, v.vertex_ID).chromosome,
      position |-> LocationOf(db, v.vertex_ID).position, strand |-> LocationOf(db, v.vertex_ID).strand,
      gene_id |-> v.gene_id] : v \in db.tables["vertex"]}

\* read_genes: one Gene per gene that owns vertices, spanning the lowest and
\* the highest position of its vertices (query_starts, query_ends)
read_genes(db) ==
    LET vs == read_vertices(db)
        ids == {v.gene_id : v \in vs}
        of(g) == {v \in vs : v.gene_id = g}
    IN  [g \in ids |-> [identifier |-> g, chromosome |-> (CHOOSE v \in of(g) : TRUE).chromosome,
                        start |-> SetMin({v.position : v \in of(g)}), end |-> SetMax({v.position : v \in of(g)}),
                        strand |-> (CHOOSE v \in of(g) : TRUE).strand]]

\* Edge.get_edge_from_db: the Edge of an edge row joined with the locations
\* of its two vertices; start is the lower and end the higher position
get_edge_from_db(db, e) ==
    LET l1 == LocationOf(db, e.v1)
        l2 == LocationOf(db, e.v2)
        owner == (CHOOSE v \in db.tables["vertex"] : v.vertex_ID = e.v1).gene_id
    IN  [identifier |-> e.edge_ID, chromosome |-> l1.chromosome,
         start |-> IF l1.position <= l2.position THEN l1.position ELSE l2.position,
         end |-> IF l1.position <= l2.position THEN l2.position ELSE l1.position,
         strand |-> l1.strand, gene_id |-> owner, v1 |-> e.v1, v2 |-> e.v2, transcript_ids |-> {}]

\* read_edges: the edges of one type, by edge id; an edge whose start equals
\* its end is left out
read_edges(db, edge_type) ==
    LET rows == {e \in db.tables["edge"] : e.edge_type = edge_type /\ get_edge_from_db(db, e).start # get_edge_from_db(db, e).end}
    IN  [id \in {e.edge_ID : e \in rows} |-> get_edge_from_db(db, CHOOSE e \in rows : e.edge_ID = id)]

\* the entries of a sequence at the odd (exon) or even (intron) indices
RECURSIVE EveryOther(_, _)
EveryOther(s, i) == IF i > Len(s) THEN <<>> ELSE <<s[i]>> \o EveryOther(s, i + 2)

\* Transcript.get_transcript_from_db: the Transcript of a transcript row;
\* its exons and introns are edge ids in ascending coordinate order
get_transcript_from_db(t, exon_tree, intron_tree) ==
    LET exons0 == EveryOther(t.path, 1)
        introns0 == EveryOther(t.path, 2)
        first == exon_tree[exons0[1]]
        minus == first.strand = "-"
        exons == IF minus THEN Reverse(exons0) ELSE exons0
        introns == IF minus THEN Reverse(introns0) ELSE introns0
    IN  [identifier |-> t.transcript_id, gene_id |-> t.gene_id, chromosome |-> first.chromosome,
         start |-> exon_tree[exons[1]].start, end |-> exon_tree[exons[Len(exons)]].end,
         strand |-> first.strand, exons |-> exons, introns |-> introns, n_exons |-> Len(exons)]

\* read_transcripts: the transcripts by id; a row whose path names an edge
\* that is in neither tree raises in get_transcript_from_db and is skipped
read_transcripts(db, exon_tree, intron_tree) ==
    LET ok == {t \in db.tables["transcripts"] :
                  /\ Len(t.path) >= 1
                  /\ Range(EveryOther(t.path, 1)) \subseteq DOMAIN exon_tree
                  /\ Range(EveryOther(t.path, 2)) \subseteq DOMAIN intron_tree}
    IN  [id \in {t.transcript_id : t \in ok} |-> get_transcript_from_db(CHOOSE t \in ok : t.transcript_id = id, exon_tree, intron_tree)]

\* read_annotation: gene_tree, transcripts, exon_tree, intron_tree, vertices
\* and counter of a run
read_annotation(db) ==
    With(read_edges(db, "exon"), LAMBDA exon_tree0 :
    With(read_edges(db, "intron"), LAMBDA intron_tree0 :
    With(read_transcripts(db, exon_tree0, intron_tree0), LAMBDA ts :
    [gene_tree |-> read_genes(db), transcripts |-> ts,
     exon_tree |-> [id \in DOMAIN exon_tree0 |-> [exon_tree0[id] EXCEPT !.transcript_ids = {t \in DOMAIN ts : id \in Range(ts[t].exons)}]],
     intron_tree |-> [id \in DOMAIN intron_tree0 |-> [intron_tree0[id] EXCEPT !.transcript_ids = {t \in DOMAIN ts : id \in Range(ts[t].introns)}]],
     vertices |-> read_vertices(db), counter |-> get_counters(db)])))

\* ------------------------------------------------------------------------
\* Reads (sam_transcript) and the helper modules of talon.py
\* ------------------------------------------------------------------------
\* the exon lists of a read: one or two exons, boundaries strictly ascending
ExonLists ==
    {<< <<a, b>> >> : <<a, b>> \in {p \in Positions \X Positions : p[1] < p[2]}}
    \cup {<< <<q[1], q[2]>>, <<q[3], q[4]>> >> : q \in {p \in Positions \X Positions \X Positions \X Positions : p[1] < p[2] /\ p[2] < p[3] /\ p[3] < p[4]}}

\* the reads a SAM file may hold, after process_sam_file accepted them
Reads == [chromosome : Chromosomes, strand : Strands, exons : ExonLists]

\* SamTranscript.get_sam_transcript: the sam_transcript of an accepted read
get_sam_transcript(read, name, d_name) ==
    [identifier |-> name, chromosome |-> read.chromosome,
     start |-> read.exons[1][1], end |-> read.exons[Len(read.exons)][2],
     strand |-> read.strand, exons |-> read.exons, n_exons |-> Len(read.exons), dataset |-> d_name]

\* sam_transcript.get_all_edges: exon, intron, exon, ... in coordinate order;
\* an intron joins the end of an exon to the start of the next
get_all_edges(sam_transcript) ==
    [i \in 1..(2 * sam_transcript.n_exons - 1) |->
        IF i % 2 = 1
        THEN [start |-> sam_transcript.exons[(i + 1) \div 2][1], end |-> sam_transcript.exons[(i + 1) \div 2][2]]
        ELSE [start |-> sam_transcript.exons[i \div 2][2], end |-> sam_transcript.exons[(i \div 2) + 1][1]]]

\* sam_transcript.get_length: the summed length of the exons
RECURSIVE get_length(_, _)
get_length(exons, i) == IF i > Len(exons) THEN 0 ELSE (exons[i][2] - exons[i][1] + 1) + get_length(exons, i + 1)

\* annot_transcript.get_all_edges: the edge ids of a transcript, exon,
\* intron, exon, ... in coordinate order
transcript_all_edges(t) == [i \in 1..(2 * t.n_exons - 1) |-> IF i % 2 = 1 THEN t.exons[(i + 1) \div 2] ELSE t.introns[i \div 2]]

\* the tree a query edge is looked up in: even 0-based indices are exons
TreeOf(i, exon_tree, intron_tree) == IF i % 2 = 1 THEN exon_tree ELSE intron_tree

\* MatchTracker.match_all_edges: for every query edge the known edges of its
\* type with the same chromosome, strand, start and end, whatever their gene
match_all_edges(query, exon_tree, intron_tree) ==
    LET es == get_all_edges(query)
    IN  [i \in 1..Len(es) |->
            LET tree == TreeOf(i, exon_tree, intron_tree)
            IN  {id \in DOMAIN tree : /\ tree[id].chromosome = query.chromosome
                                      /\ tree[id].strand = query.strand
                                      /\ tree[id].start = es[i].start
                                      /\ tree[id].end = es[i].end}]

\* the transcripts that use one of the edges matched at query edge i
transcript_matches(edge_matches, i, exon_tree, intron_tree) ==
    UNION {TreeOf(i, exon_tree, intron_tree)[id].transcript_ids : id \in edge_matches[i]}

\* MatchTracker.compute_match_sets, full_matches: the known transcripts that
\* hold a match of every query edge and have as many edges as the query
full_matches(query, edge_matches, transcripts, exon_tree, intron_tree) ==
    {t \in DOMAIN transcripts :
        /\ transcripts[t].n_exons = query.n_exons
        /\ \A i \in 1..Len(edge_matches) : t \in transcript_matches(edge_matches, i, exon_tree, intron_tree)}

\* MatchTracker.compute_match_sets, partial_matches: the other known
\* transcripts that hold a match of at least one query edge
partial_matches(query, edge_matches, transcripts, exon_tree, intron_tree) ==
    {t \in DOMAIN transcripts : \E i \in 1..Len(edge_matches) : t \in transcript_matches(edge_matches, i, exon_tree, intron_tree)}
    \ full_matches(query, edge_matches, transcripts, exon_tree, intron_tree)

\* the differences taken as on the "+" strand, whatever the strand
get_difference_unstranded(a, b, strand) == <<b[1] - a[1], a[2] - b[2]>>

\* TMT.get_difference: the 5' and 3' difference of interval a (the read)
\* against interval b (the transcript); positive when the read extends
\* beyond the transcript, on either strand
get_difference(a, b, strand) ==
    IF strand = "+"
    THEN <<b[1] - a[1], a[2] - b[2]>>
    ELSE <<a[2] - b[2], b[1] - a[1]>>

\* the summed absolute 5' and 3' difference of a query against a transcript
TotalDiff(query, t) ==
    LET d == get_difference(<<query.start, query.end>>, <<t.start, t.end>>, query.strand)
    IN  Abs(d[1]) + Abs(d[2])

\* the lowest identifier among the full matches, whatever the differences
get_best_full_match_lowest_id(query, full, transcripts) == SetMin(full)

\* MatchTracker.get_best_full_match: the full match of least total
\* difference, the lowest identifier among equals
get_best_full_match(query, full, transcripts) ==
    CHOOSE t \in full : \A u \in full :
        \/ TotalDiff(query, transcripts[t]) < TotalDiff(query, transcripts[u])
        \/ (TotalDiff(query, transcripts[t]) = TotalDiff(query, transcripts[u]) /\ t <= u)

\* the number of query edges a transcript holds a match of
SharedEdges(t, edge_matches, exon_tree, intron_tree) ==
    Cardinality({i \in 1..Len(edge_matches) : t \in transcript_matches(edge_matches, i, exon_tree, intron_tree)})

\* MatchTracker.get_best_partial_match: the partial match sharing most
\* query edges, the lowest identifier among equals
get_best_partial_match(partial, edge_matches, exon_tree, intron_tree) ==
    CHOOSE t \in partial : \A u \in partial :
        \/ SharedEdges(t, edge_matches, exon_tree, intron_tree) > SharedEdges(u, edge_matches, exon_tree, intron_tree)
        \/ (SharedEdges(t, edge_matches, exon_tree, intron_tree) = SharedEdges(u, edge_matches, exon_tree, intron_tree) /\ t <= u)

\* MatchTracker.get_best_edge_matches: one edge id per query edge, the lowest
\* of its matches, or None
get_best_edge_matches(edge_matches) ==
    [i \in 1..Len(edge_matches) |-> IF edge_matches[i] = {} THEN None ELSE SetMin(edge_matches[i])]

\* the test with > 1 in place of > 0
has_full_match_several(full) == Cardinality(full) > 1

\* find_transcript_match, the test of the full branch
has_full_match(full) == Cardinality(full) > 0

\* the test that never holds: partial matches are not looked at
has_partial_match_never(partial) == FALSE

\* find_transcript_match, the test of the partial branch
has_partial_match(partial) == Cardinality(partial) > 0

\* find_transcript_match: the best match (a transcript id, None for the
\* string "none"), the match type, the edge matches and the differences
\* (the list [None, None] unless the match is full)
find_transcript_match(query_transcript, transcripts, exon_tree, intron_tree) ==
    With(match_all_edges(query_transcript, exon_tree, intron_tree), LAMBDA tracker :
    With(full_matches(query_transcript, tracker, transcripts, exon_tree, intron_tree), LAMBDA full :
    With(partial_matches(query_transcript, tracker, transcripts, exon_tree, intron_tree), LAMBDA partial :
    IF has_full_match(full)
    THEN With(get_best_full_match(query_transcript, full, transcripts), LAMBDA best :
         [transcript_match |-> best, match_type |-> "full",
          edge_matches |-> transcript_all_edges(transcripts[best]),
          diff |-> get_difference(<<query_transcript.start, query_transcript.end>>, <<transcripts[best].start, transcripts[best].end>>, query_transcript.strand)])
    ELSE [transcript_match |-> IF has_partial_match(partial) THEN get_best_partial_match(partial, tracker, exon_tree, intron_tree) ELSE None,
          match_type |-> IF has_partial_match(partial) THEN "partial" ELSE "none",
          edge_matches |-> get_best_edge_matches(tracker),
          diff |-> <<"None", "None">>])))

\* a dictionary with key k set to v
Put(f, k, v) == [x \in (DOMAIN f) \cup {k} |-> IF x = k THEN v ELSE f[x]]

\* Vertex.fetch_vertex: the vertices of a gene at a position of a chromosome
\* (at most one; none when the position is new to the gene)
fetch_vertex(vertices, chromosome, pos, gene_id) ==
    {v \in vertices : v.chromosome = chromosome /\ v.position = pos /\ v.gene_id = gene_id}

\* Vertex.search_for_gene: the gene a read is assigned by position: among the
\* genes that own vertices on the read's chromosome and strand and whose span
\* overlaps the read's span, the one of largest overlap, the lowest
\* identifier among equals; None when there is none
GeneSpan(vertices, g) == [lo |-> SetMin({v.position : v \in {w \in vertices : w.gene_id = g}}), hi |-> SetMax({v.position : v \in {w \in vertices : w.gene_id = g}})]

Overlap(span, start, end) == (IF span.hi < end THEN span.hi ELSE end) - (IF span.lo > start THEN span.lo ELSE start)

search_for_gene(sam_transcript, vertices) ==
    LET cands == {v.gene_id : v \in {w \in vertices : w.chromosome = sam_transcript.chromosome /\ w.strand = sam_transcript.strand}}
        hits == {g \in cands : Overlap(GeneSpan(vertices, g), sam_transcript.start, sam_transcript.end) >= 0}
        ov(g) == Overlap(GeneSpan(vertices, g), sam_transcript.start, sam_transcript.end)
    IN  IF hits = {} THEN None
        ELSE CHOOSE g \in hits : \A h \in hits : ov(g) > ov(h) \/ (ov(g) = ov(h) /\ g <= h)

\* Gene.create_novel_gene: a gene spanning the given coordinates, its id the
\* genes counter after the increment
create_novel_gene(chromosome, start, end, strand, counter) ==
    [gene |-> [identifier |-> counter["genes"] + 1, chromosome |-> chromosome, start |-> start, end |-> end, strand |-> strand],
     counter |-> [counter EXCEPT !["genes"] = @ + 1]]

\* Edge.create_novel_edge: an edge of the given gene, its id the edges counter
\* after the increment; it lists the transcript id given when that is set
create_novel_edge(chromosome, start, end, strand, gene_id, transcript_ID, counter) ==
    [edge |-> [identifier |-> counter["edges"] + 1, chromosome |-> chromosome, start |-> start, end |-> end,
               strand |-> strand, gene_id |-> gene_id, v1 |-> None, v2 |-> None,
               transcript_ids |-> IF transcript_ID = None THEN {} ELSE {transcript_ID}],
     counter |-> [counter EXCEPT !["edges"] = @ + 1]]

\* Vertex.try_vertex_update, one end of the edge: the vertex of the edge's
\* gene at the position, minted (vertices counter + 1, staged in
\* novel_ids['vertices']) when the gene has none there.  m = [vertices,
\* counter, novel_ids, ...]
vertex_at(edge_obj, pos, m) ==
    LET hit == fetch_vertex(m.vertices, edge_obj.chromosome, pos, edge_obj.gene_id)
        id == m.counter["vertices"] + 1
        new == [identifier |-> id, chromosome |-> edge_obj.chromosome, position |-> pos, strand |-> edge_obj.strand, gene_id |-> edge_obj.gene_id]
        row == [vertex_ID |-> id, gene_id |-> edge_obj.gene_id, chromosome |-> edge_obj.chromosome, position |-> pos, strand |-> edge_obj.strand]
    IN  IF hit # {}
        THEN [id |-> (CHOOSE v \in hit : TRUE).identifier, m |-> m]
        ELSE [id |-> id,
              m |-> [m EXCEPT !.vertices = @ \cup {new},
                              !.counter = [@ EXCEPT !["vertices"] = @ + 1],
                              !.novel_ids = [@ EXCEPT !.vertices = Put(@, id, row)]]]

\* Vertex.try_vertex_update: both ends of the edge, start first; v1 is the
\* 5' end of the edge (the higher position on the minus strand)
try_vertex_update(edge_obj, m) ==
    With(vertex_at(edge_obj, edge_obj.start, m), LAMBDA a :
    With(vertex_at(edge_obj, edge_obj.end, a.m), LAMBDA b :
    [edge |-> [edge_obj EXCEPT !.v1 = IF edge_obj.strand = "-" THEN b.id ELSE a.id,
                                !.v2 = IF edge_obj.strand = "-" THEN a.id ELSE b.id],
     m |-> b.m]))

\* the test without its gene half: any matched edge is reused
mint_edge_unmatched_only(match_gene_id, gene_id, edge_match) == edge_match = None

\* make_novel_transcript, the test of the loop body: a new edge is created
\* when the match is of another gene or there is no match
mint_edge(match_gene_id, gene_id, edge_match) == match_gene_id # gene_id \/ edge_match = None

\* the edge left as it is: the new transcript id is not added
add_transcript_id_skipped(edge_obj, novel_transcript_id) == edge_obj

\* make_novel_transcript, edge_obj.transcript_ids.add(novel_transcript_id)
add_transcript_id(edge_obj, novel_transcript_id) ==
    [edge_obj EXCEPT !.transcript_ids = @ \cup {novel_transcript_id}]

\* make_novel_transcript, the body of the loop for query edge i (1-based):
\* reuse the matched edge when it belongs to the read's gene, mint one
\* otherwise.  m = the in-memory structures, with the exons and introns
\* collected so far
novel_edge_step(sam_transcript, edge_matches, i, novel_transcript_id, m) ==
    LET sam_edge == get_all_edges(sam_transcript)[i]
        edge_match == edge_matches[i]
        is_exon == i % 2 = 1
        edge_type == IF is_exon THEN "exon" ELSE "intron"
        edge_tree == IF is_exon THEN m.exon_tree ELSE m.intron_tree
        gene_id == sam_transcript.gene_ID
        match_gene_id == IF edge_match \in DOMAIN edge_tree THEN edge_tree[edge_match].gene_id ELSE None
        novel_list_append(mm, edge_obj) ==
            IF is_exon
            THEN [mm EXCEPT !.exon_tree = Put(@, edge_obj.identifier, edge_obj), !.exons = Append(@, edge_obj.identifier)]
            ELSE [mm EXCEPT !.intron_tree = Put(@, edge_obj.identifier, edge_obj), !.introns = Append(@, edge_obj.identifier)]
    IN  IF mint_edge(match_gene_id, gene_id, edge_match)
        THEN With(create_novel_edge(sam_transcript.chromosome, sam_edge.start, sam_edge.end, sam_transcript.strand, gene_id, sam_transcript.transcript_ID, m.counter), LAMBDA minted :
             With(try_vertex_update(minted.edge, [m EXCEPT !.counter = minted.counter]), LAMBDA upd :
             With([edge_ID |-> upd.edge.identifier, v1 |-> upd.edge.v1, v2 |-> upd.edge.v2, edge_type |-> edge_type, dataset |-> sam_transcript.dataset], LAMBDA row :
             With([upd.m EXCEPT !.novel_ids = [@ EXCEPT !.edges = Put(@, upd.edge.identifier, row)]], LAMBDA m_new :
             novel_list_append(m_new, add_transcript_id(upd.edge, novel_transcript_id))))))
        ELSE novel_list_append(m, add_transcript_id(edge_tree[edge_match], novel_transcript_id))

\* make_novel_transcript, the loop over the query edges: zip stops at the
\* shorter of the read's edges and the edge matches
RECURSIVE novel_edges(_, _, _, _, _)
novel_edges(sam_transcript, edge_matches, i, novel_transcript_id, m) ==
    IF i > Len(edge_matches) \/ i > 2 * sam_transcript.n_exons - 1 THEN m
    ELSE With(novel_edge_step(sam_transcript, edge_matches, i, novel_transcript_id, m), LAMBDA next :
         novel_edges(sam_transcript, edge_matches, i + 1, novel_transcript_id, next))

\* Transcript.create_novel_transcript: the transcript of the collected
\* edges, its id the transcripts counter after the increment
create_novel_transcript(chromosome, start, end, strand, gene_id, counter, exons, introns) ==
    [transcript |-> [identifier |-> counter["transcripts"] + 1, gene_id |-> gene_id, chromosome |-> chromosome,
                     start |-> start, end |-> end, strand |-> strand, exons |-> exons, introns |-> introns, n_exons |-> Len(exons)],
     counter |-> [counter EXCEPT !["transcripts"] = @ + 1]]

\* make_novel_transcript: the edges of the read, then the transcript
make_novel_transcript(sam_transcript, edge_matches, m) ==
    With([exons |-> <<>>, introns |-> <<>>] @@ m, LAMBDA m0 :
    With(novel_edges(sam_transcript, edge_matches, 1, m0.counter["transcripts"] + 1, m0), LAMBDA m1 :
    With(create_novel_transcript(sam_transcript.chromosome, m1.exon_tree[m1.exons[1]].start, m1.exon_tree[m1.exons[Len(m1.exons)]].end,
                                 sam_transcript.strand, sam_transcript.gene_ID, m1.counter, m1.exons, m1.introns), LAMBDA r :
    [annot_transcript |-> r.transcript, m |-> [m1 EXCEPT !.counter = r.counter]])))

\* ------------------------------------------------------------------------
\* State of a run
\* ------------------------------------------------------------------------
VARIABLES
    pc,                  \* where main is: "identify", a stage of update_database, "done", "raised"
    db,                  \* the database file: what is committed
    conn,                \* the connection of update_database: "none", "open", "closed"
    cursor,              \* the tables as the open transaction sees them
    failures,            \* batched inserts that failed in this flush
    gene_tree,           \* gene id -> Gene
    transcripts,         \* transcript id -> Transcript
    exon_tree,           \* edge id -> Edge, the exons
    intron_tree,         \* edge id -> Edge, the introns
    vertices,            \* the Vertex objects
    counter,             \* the in-memory counter
    novel_ids,           \* category -> id -> staged row
    abundance,           \* transcript id -> dataset -> count
    all_sam_transcripts, \* the reads processed so far, with what they were assigned
    dataset,             \* the name of the dataset being processed
    n_datasets,          \* config lines consumed so far
    location_dict,       \* chromosome -> position -> vertex id (match_splice_vertices)
    vertex_counter,      \* the vertex counter of match_splice_vertices
    positions,           \* the positions of the last call of match_splice_vertices
    vertex_IDs,          \* the vertex ids the last call returned
    novelty,             \* the novelty flags the last call returned
    sam_file,            \* the lines of the SAM file process_sam_file reads
    sam_line,            \* the line its loop is at (1-based)
    sam_transcripts_list, \* the list sam_transcripts it has collected
    sam_log,             \* the reads it wrote to the log file
    sam_pc,              \* where it is: "reading", "returned", "raised"
    options,             \* the command line: noUpdate, build
    config_file,         \* the lines of the dataset config file
    sam_files,           \* checkArgs: the SAM files it returns
    dataset_metadata,    \* checkArgs: the dataset entries it returns
    args_pc,             \* checkArgs: "checking", "returned", "raised"
    chrom_annotations,   \* populate_db: the GTF entries of each chromosome
    chrom_pos,           \* populate_db: the chromosomes it has committed
    populate_pc,         \* populate_db: "running", "closed"
    init_vertices,       \* add_transcripts: the vertices dictionary
    init_edges,          \* add_transcripts: the edges dictionary
    vertex_calls,        \* the calls of create_vertex on it, with their results
    edge_calls,          \* the calls of create_edge on it, with their results
    currTranscript,      \* transcript.py: the Transcript object, by attribute
    add_exon_calls,      \* the calls of add_exon on it, with their outcomes
    gtf_genes,           \* filter_by_length: the genes dictionary passed in
    gtf_transcripts,     \* filter_by_length: the transcripts dictionary passed in
    min_length,          \* filter_by_length: the minimum length
    filtered_genes,      \* filter_by_length: the genes dictionary returned
    filtered_transcripts, \* filter_by_length: the transcripts dictionary returned
    filter_pc,           \* filter_by_length: "called", "returned"
    gtf_file,            \* read_gtf_file: the exon entries of the file, in order
    gtf_line,            \* read_gtf_file: the number of entries read
    gtf_exons,           \* read_gtf_file: the exons dictionary
    loop_entries,        \* batch_add_*: the staged rows to insert
    loop_batch_size,     \* batch_add_*: batch_size
    loop_index,          \* batch_add_*: index
    loop_calls,          \* batch_add_*: the batches given to executemany, in order
    loop_pc,             \* batch_add_*: "loop", "returned"
    counters_table,      \* the counters table: count by category
    update_arg,          \* update_counter: the counter dictionary passed in
    fetched_counter,     \* get_counters: the dictionary returned
    counters_pc          \* "created", "updated", "fetched", "TypeError"

\* the variables of a run of talon.py
run_vars == <<pc, db, conn, cursor, failures, gene_tree, transcripts, exon_tree, intron_tree, vertices, counter, novel_ids, abundance, all_sam_transcripts, dataset, n_datasets>>

\* the variables of the calls of match_splice_vertices
splice_vars == <<location_dict, vertex_counter, positions, vertex_IDs, novelty>>

\* the variables of a call of process_sam_file
sam_vars == <<sam_file, sam_line, sam_transcripts_list, sam_log, sam_pc>>

\* the variables of a call of checkArgs, and the options main reads
args_vars == <<options, config_file, sam_files, dataset_metadata, args_pc>>

\* the variables of a call of populate_db
populate_vars == <<chrom_annotations, chrom_pos, populate_pc>>

\* the dictionaries create_vertex and create_edge work on, and their calls
create_vars == <<init_vertices, init_edges, vertex_calls, edge_calls>>

\* the Transcript object add_exon works on, and its calls
transcript_vars == <<currTranscript, add_exon_calls>>

\* the arguments and the results of filter_by_length
filter_vars == <<gtf_genes, gtf_transcripts, min_length, filtered_genes, filtered_transcripts, filter_pc>>
gtf_vars == <<gtf_file, gtf_line, gtf_exons>>
batch_vars == <<loop_entries, loop_batch_size, loop_index, loop_calls, loop_pc>>
counter_vars == <<counters_table, update_arg, fetched_counter, counters_pc>>

vars == <<run_vars, splice_vars, sam_vars, args_vars, populate_vars, create_vars, transcript_vars, filter_vars, gtf_vars, batch_vars, counter_vars>>

\* a dictionary without keys
NoEntries == [key \in {} |-> 0]

\* Transcript.__init__: the exons list starts empty
NewTranscript(identifier, name, chromosome, start, end, strand, gene_id) ==
    [chromosome |-> chromosome, start |-> start, end |-> end, strand |-> strand, exons |-> <<>>,
     identifier |-> identifier, name |-> name, gene_id |-> gene_id]

\* no call of add_exon is followed
NoTranscript ==
    /\ currTranscript = NewTranscript("t1", "None", "chr1", 1, 1, "+", "None")
    /\ add_exon_calls = <<>>

\* no call of filter_by_length is followed
NoFilter ==
    /\ gtf_genes = NoEntries
    /\ gtf_transcripts = NoEntries
    /\ min_length = 0
    /\ filtered_genes = NoEntries
    /\ filtered_transcripts = NoEntries
    /\ filter_pc = "returned"

\* no GTF file is being read
NoGtf ==
    /\ gtf_file = <<>>
    /\ gtf_line = 0
    /\ gtf_exons = NoEntries

\* no batch loop is running
NoBatch ==
    /\ loop_entries = <<>>
    /\ loop_batch_size = 1
    /\ loop_index = 0
    /\ loop_calls = <<>>
    /\ loop_pc = "returned"

\* no counters table is being read
NoCounters ==
    /\ counters_table = NoEntries
    /\ update_arg = NoEntries
    /\ fetched_counter = NoEntries
    /\ counters_pc = "fetched"

\* no call of create_vertex or create_edge is followed
NoCreate ==
    /\ init_vertices = [counter |-> 0, rows |-> {}]
    /\ init_edges = [counter |-> 0, rows |-> {}]
    /\ vertex_calls = <<>>
    /\ edge_calls = <<>>

\* no call of populate_db is followed: the database is initialized
NoPopulate == chrom_annotations = <<>> /\ chrom_pos = 0 /\ populate_pc = "closed"

\* getOptions: --noUpdate is a store_true option without a default, so it
\* is None when the option is absent and True when it is given; --build is
\* any string
Options == [noUpdate : {"None", "True"}, build : {GenomeBuild, "other_build"}]

\* the options of a run without --noUpdate; no call of checkArgs is followed
NoArgs ==
    /\ options = [noUpdate |-> "None", build |-> GenomeBuild]
    /\ config_file = <<>>
    /\ sam_files = <<>>
    /\ dataset_metadata = <<>>
    /\ args_pc = "returned"

\* no call of process_sam_file is followed
NoSamFile == sam_file = <<>> /\ sam_line = 1 /\ sam_transcripts_list = <<>> /\ sam_log = <<>> /\ sam_pc = "reading"

EmptyDict == [x \in {} |-> None]

\* the in-memory structures as one record
Memory == [gene_tree |-> gene_tree, transcripts |-> transcripts, exon_tree |-> exon_tree, intron_tree |-> intron_tree,
           vertices |-> vertices, counter |-> counter, novel_ids |-> novel_ids]

\* main before the first dataset: the structures read_annotation returns for
\* a database populate_db wrote, empty staging tables, no abundance
RunInit(annotation) ==
    \E database \in {populate_db(annotation)} :
    \E a \in {read_annotation(database)} :
        /\ db = database
        /\ gene_tree = a.gene_tree
        /\ transcripts = a.transcripts
        /\ exon_tree = a.exon_tree
        /\ intron_tree = a.intron_tree
        /\ vertices = a.vertices
        /\ counter = a.counter
        /\ novel_ids = [c \in CounterKeys |-> EmptyDict]
        /\ abundance = EmptyDict
        /\ all_sam_transcripts = <<>>
        /\ dataset = ""
        /\ n_datasets = 0
        /\ pc = "identify"
        /\ conn = "none"
        /\ cursor = database
        /\ failures = 0

\* a run of talon.py on a database initialized from one of the annotations;
\* match_splice_vertices is not part of that program
Init ==
    /\ \E annotation \in Annotations : RunInit(annotation)
    /\ location_dict = [c \in Chromosomes |-> EmptyDict]
    /\ vertex_counter = 0
    /\ positions = <<>>
    /\ vertex_IDs = <<>>
    /\ novelty = <<>>
    /\ NoSamFile
    /\ NoArgs
    /\ NoPopulate
    /\ NoCreate
    /\ NoTranscript
    /\ NoFilter
    /\ NoGtf
    /\ NoBatch
    /\ NoCounters

\* ------------------------------------------------------------------------
\* Processing the reads
\* ------------------------------------------------------------------------
\* main, the head of the loop over the datasets: a new dataset entry under
\* the datasets counter + 1
\* the dataset id taken without the + 1
stale_dataset_id(count) == count["datasets"]

\* main, the dataset id: the datasets counter + 1
next_dataset_id(count) == count["datasets"] + 1

\* the datasets counter left as it is
count_dataset_skipped(count) == count

\* main, counter['datasets'] += 1
count_dataset(count) == [count EXCEPT !["datasets"] = @ + 1]

StartDataset ==
    /\ pc = "identify"
    /\ n_datasets < MaxDatasets
    /\ \E d_name \in DatasetNames :
        LET d_id == next_dataset_id(counter)
            novel_tuple == [dataset_ID |-> d_id, dataset_name |-> d_name, sample |-> "sample", platform |-> "platform"]
        IN  /\ novel_ids' = [novel_ids EXCEPT !["datasets"] = Put(@, d_id, novel_tuple)]
            /\ counter' = count_dataset(counter)
            /\ dataset' = d_name
    /\ n_datasets' = n_datasets + 1
    /\ UNCHANGED <<pc, db, conn, cursor, failures, gene_tree, transcripts, exon_tree, intron_tree, vertices, abundance, all_sam_transcripts, location_dict, vertex_counter, positions, vertex_IDs, novelty, sam_file, sam_line, sam_transcripts_list, sam_log, sam_pc, options, config_file, sam_files, dataset_metadata, args_pc, chrom_annotations, chrom_pos, populate_pc, init_vertices, init_edges, vertex_calls, edge_calls, currTranscript, add_exon_calls, gtf_genes, gtf_transcripts, min_length, filtered_genes, filtered_transcripts, filter_pc, gtf_file, gtf_line, gtf_exons, loop_entries, loop_batch_size, loop_index, loop_calls, loop_pc, counters_table, update_arg, fetched_counter, counters_pc>>

\* Transcript.get_5prime_vertex / get_3prime_vertex: the first vertex of the
\* first edge and the last vertex of the last edge in 5'->3' order
get_5prime_vertex(t, tree) == IF t.strand = "-" THEN tree[t.exons[Len(t.exons)]].v1 ELSE tree[t.exons[1]].v1

get_3prime_vertex(t, tree) == IF t.strand = "-" THEN tree[t.exons[1]].v2 ELSE tree[t.exons[Len(t.exons)]].v2

\* the novel transcript left out of the transcript dictionary
add_novel_transcript_dropped(known, t) == known

\* identify_sam_transcripts: the novel transcript joins the transcript
\* dictionary, so later reads can match it
add_novel_transcript(known, t) == Put(known, t.identifier, t)

\* the gene of the best match never taken
gene_of_best_match_ignored(fm, known) == None

\* identify_sam_transcripts, the gene of a single-exon read: best_match.gene_id,
\* None when there is no best match (the except branch)
gene_of_best_match(fm, known) == IF fm.transcript_match # None THEN known[fm.transcript_match].gene_id ELSE None

\* the test taken by every read
is_single_exon_always(sam_transcript) == TRUE

\* identify_sam_transcripts, the test that sends single-exon reads to the
\* gene of their best match and the others to the search by position
is_single_exon(sam_transcript) == sam_transcript.n_exons = 1

\* the read renamed to its best match when it has one
assigned_transcript_id_of_match(sam_transcript, annot_transcript) ==
    IF sam_transcript.best_match # None THEN sam_transcript.best_match ELSE annot_transcript.identifier

\* make_novel_transcript, its last assignment: the read takes the id of the
\* transcript created for it
assigned_transcript_id(sam_transcript, annot_transcript) == annot_transcript.identifier

\* the gene index left as it is: the novel gene is not added
add_gene_dropped(genes_by_id, gene_obj) == genes_by_id

\* gene_tree.add_gene(gene_obj): the gene enters the index under its id
add_gene(genes_by_id, gene_obj) == Put(genes_by_id, gene_obj.identifier, gene_obj)

\* identify_sam_transcripts, the branch of a read without a full match: the
\* gene of the read, then the novel transcript.  Gives the structures after
\* the branch, the read and its transcript
novel_branch(sam_transcript, fm, d_name, m) ==
    With(IF is_single_exon(sam_transcript)
         THEN gene_of_best_match(fm, m.transcripts)
         ELSE search_for_gene(sam_transcript, m.vertices), LAMBDA gene_match_id :
    With(create_novel_gene(sam_transcript.chromosome, sam_transcript.start, sam_transcript.end, sam_transcript.strand, m.counter), LAMBDA g :
    With(IF gene_match_id = None
         THEN [m EXCEPT !.counter = g.counter,
                        !.novel_ids = [@ EXCEPT !["genes"] = Put(@, g.gene.identifier, [gene_ID |-> g.gene.identifier, dataset |-> d_name])],
                        !.gene_tree = add_gene(@, g.gene)]
         ELSE m, LAMBDA m1 :
    With([sam_transcript EXCEPT !.novel = "Novel", !.gene_ID = IF gene_match_id = None THEN g.gene.identifier ELSE m.gene_tree[gene_match_id].identifier], LAMBDA sam1 :
    With(make_novel_transcript(sam1, fm.edge_matches, m1), LAMBDA r :
    LET t == r.annot_transcript
        novel_tuple == [transcript_id |-> t.identifier, gene_id |-> t.gene_id, path |-> transcript_all_edges(t),
                        start_vertex |-> get_5prime_vertex(t, r.m.exon_tree), end_vertex |-> get_3prime_vertex(t, r.m.exon_tree),
                        n_exons |-> t.n_exons, dataset |-> d_name]
    IN  [sam |-> [sam1 EXCEPT !.transcript_ID = assigned_transcript_id(sam1, t)],
         annot_transcript |-> t,
         m |-> [r.m EXCEPT !.novel_ids = [@ EXCEPT !["transcripts"] = Put(@, t.identifier, novel_tuple)],
                           !.transcripts = add_novel_transcript(@, t)]])))))

\* the test against a string find_transcript_match never returns
is_full_match_misspelt(match_type) == match_type = "Full"

\* identify_sam_transcripts, the test of the full-match branch
is_full_match(match_type) == match_type = "full"

\* identify_sam_transcripts, the match of one read: full match or novel
\* transcript
identify(sam_transcript, d_name, m) ==
    With(find_transcript_match(sam_transcript, m.transcripts, m.exon_tree, m.intron_tree), LAMBDA fm :
    With([gene_ID |-> None, transcript_ID |-> None, novel |-> "", match_type |-> fm.match_type, best_match |-> fm.transcript_match, match_diff |-> fm.diff] @@ sam_transcript, LAMBDA sam0 :
    IF is_full_match(fm.match_type)
    THEN [sam |-> [sam0 EXCEPT !.gene_ID = m.transcripts[fm.transcript_match].gene_id,
                               !.transcript_ID = m.transcripts[fm.transcript_match].identifier,
                               !.novel = "Seen_previously"],
          annot_transcript |-> m.transcripts[fm.transcript_match],
          m |-> m]
    ELSE novel_branch(sam0, fm, d_name, m)))

\* the observation id taken without the + 1
stale_obs_id(count) == count["observed"]

\* get_transcript_start_and_end_diffs, the observation id: the observed
\* counter + 1
next_obs_id(count) == count["observed"] + 1

\* the two vertices in coordinate order on either strand
observed_vertices_unswapped(strand, first_vertex, last_vertex) == <<first_vertex, last_vertex>>

\* get_transcript_start_and_end_diffs, the start and end vertex of the
\* observed tuple: first and last on "+", last and first on "-"
observed_vertices(strand, first_vertex, last_vertex) ==
    IF strand = "+" THEN <<first_vertex, last_vertex>> ELSE <<last_vertex, first_vertex>>

\* the observed counter raised by two for one record
count_observed_twice(count) == [count EXCEPT !["observed"] = @ + 2]

\* get_transcript_start_and_end_diffs, counter["observed"] += 1
count_observed(count) == [count EXCEPT !["observed"] = @ + 1]

\* get_transcript_start_and_end_diffs: the observed-read record of a read,
\* staged under the observed counter + 1
get_transcript_start_and_end_diffs(sam_transcript, annot_transcript, d_name, m) ==
    LET obs_id == next_obs_id(m.counter)
        d == get_difference(<<sam_transcript.start, sam_transcript.end>>, <<annot_transcript.start, annot_transcript.end>>, sam_transcript.strand)
        first_vertex == (CHOOSE v \in fetch_vertex(m.vertices, annot_transcript.chromosome, annot_transcript.start, sam_transcript.gene_ID) : TRUE).identifier
        last_vertex == (CHOOSE v \in fetch_vertex(m.vertices, annot_transcript.chromosome, annot_transcript.end, sam_transcript.gene_ID) : TRUE).identifier
        observed == [obs_ID |-> obs_id, gene_ID |-> annot_transcript.gene_id, transcript_ID |-> annot_transcript.identifier,
                     read_name |-> sam_transcript.identifier, dataset |-> d_name,
                     start_vertex_ID |-> observed_vertices(sam_transcript.strand, first_vertex, last_vertex)[1],
                     end_vertex_ID |-> observed_vertices(sam_transcript.strand, first_vertex, last_vertex)[2],
                     start_delta |-> d[1], end_delta |-> d[2], read_length |-> get_length(sam_transcript.exons, 1)]
    IN  [sam |-> [diff_5 |-> d[1], diff_3 |-> d[2]] @@ sam_transcript,
         m |-> [m EXCEPT !.counter = count_observed(@),
                         !.novel_ids = [@ EXCEPT !["observed"] = Put(@, obs_id, observed)]]]

\* the abundance with = 1 in place of += 1
add_abundance_reset(abund, transcript_id, d_name) ==
    IF transcript_id \in DOMAIN abund THEN [abund EXCEPT ![transcript_id] = Put(@, d_name, 1)] ELSE Put(abund, transcript_id, Put(EmptyDict, d_name, 1))

\* identify_sam_transcripts, the abundance of the assigned transcript in the
\* dataset, one more
add_abundance(abund, transcript_id, d_name) ==
    IF transcript_id \in DOMAIN abund
    THEN [abund EXCEPT ![transcript_id] = IF d_name \in DOMAIN @ THEN [@ EXCEPT ![d_name] = @ + 1] ELSE Put(@, d_name, 1)]
    ELSE Put(abund, transcript_id, Put(EmptyDict, d_name, 1))

\* identify_sam_transcripts, the body of the loop for one read of the
\* current dataset, the read drawn from a pool
identify_sam_transcripts(pool) ==
    /\ pc = "identify"
    /\ dataset # ""
    /\ Len(all_sam_transcripts) < MaxReads
    /\ \E read \in pool :
        \E m \in {Memory} :
        \E r1 \in {identify(get_sam_transcript(read, Len(all_sam_transcripts) + 1, dataset), dataset, m)} :
        \E r2 \in {get_transcript_start_and_end_diffs(r1.sam, r1.annot_transcript, dataset, r1.m)} :
            /\ gene_tree' = r2.m.gene_tree
            /\ transcripts' = r2.m.transcripts
            /\ exon_tree' = r2.m.exon_tree
            /\ intron_tree' = r2.m.intron_tree
            /\ vertices' = r2.m.vertices
            /\ counter' = r2.m.counter
            /\ novel_ids' = r2.m.novel_ids
            /\ abundance' = add_abundance(abundance, r1.annot_transcript.identifier, dataset)
            /\ all_sam_transcripts' = Append(all_sam_transcripts, r2.sam)
    /\ UNCHANGED <<pc, db, conn, cursor, failures, dataset, n_datasets, location_dict, vertex_counter, positions, vertex_IDs, novelty, sam_file, sam_line, sam_transcripts_list, sam_log, sam_pc, options, config_file, sam_files, dataset_metadata, args_pc, chrom_annotations, chrom_pos, populate_pc, init_vertices, init_edges, vertex_calls, edge_calls, currTranscript, add_exon_calls, gtf_genes, gtf_transcripts, min_length, filtered_genes, filtered_transcripts, filter_pc, gtf_file, gtf_line, gtf_exons, loop_entries, loop_batch_size, loop_index, loop_calls, loop_pc, counters_table, update_arg, fetched_counter, counters_pc>>

\* ------------------------------------------------------------------------
\* update_database: the flush of the staged rows
\* ------------------------------------------------------------------------
\* list(d.values()): the values of a staging dictionary in insertion order;
\* keys are minted ascending, so insertion order is key order
ValuesOf(d) == [i \in 1..Cardinality(DOMAIN d) |-> d[SortedSeq(DOMAIN d)[i]]]

\* the slice taken one row short: entries[index:index + batch_size - 1]
batch_slice_short(entries, index, batch_size) ==
    SubSeq(entries, index + 1, IF index + batch_size - 1 < Len(entries) THEN index + batch_size - 1 ELSE Len(entries))

\* entries[index:index + batch_size]: the rows from index on, batch_size of
\* them or as many as are left; a Python slice never raises
batch_slice(entries, index, batch_size) ==
    SubSeq(entries, index + 1, IF index + batch_size < Len(entries) THEN index + batch_size ELSE Len(entries))

\* the while loop of the batch_add_* functions: entries[index:index +
\* batch_size] for index = 0, batch_size, ... while index < len(entries)
RECURSIVE Batches(_, _, _)
Batches(entries, index, batch_size) ==
    IF index >= Len(entries) THEN <<>>
    ELSE <<batch_slice(entries, index, batch_size)>>
         \o Batches(entries, index + batch_size, batch_size)

\* one cursor.executemany: the table, the rows, and the try block it runs in
Call(table, rows, try) == [table |-> table, rows |-> rows, try |-> try]

\* the calls of a loop that inserts batch b of two lists in turn; the two
\* inserts of a batch share a try block or have one each
RECURSIVE PairedCalls(_, _, _, _, _, _)
PairedCalls(table_1, batches_1, table_2, batches_2, same_try, b) ==
    IF b > Len(batches_1) THEN <<>>
    ELSE <<Call(table_1, batches_1[b], 2 * b - 1), Call(table_2, batches_2[b], IF same_try THEN 2 * b - 1 ELSE 2 * b)>>
         \o PairedCalls(table_1, batches_1, table_2, batches_2, same_try, b + 1)

\* the calls of a loop that inserts the batches of one list, try blocks
\* numbered from first
SingleCalls(table, batches, first) == [b \in 1..Len(batches) |-> Call(table, batches[b], first + b - 1)]

\* the outcomes of a list of calls: <<0, 0>> when every executemany succeeds,
\* <<j, k>> when call j raises after inserting its first k rows
FailChoices(calls, failed) ==
    {<<0, 0>>} \cup (IF failed < MaxInsertFailures THEN UNION {{<<j, k>> : k \in 0..(Len(calls[j].rows) - 1)} : j \in 1..Len(calls)} ELSE {})

\* the rows call j leaves in its table: all of them, the first k when it is
\* the call that raises, none when an earlier call of its try block raised
Inserted(calls, j, fail) ==
    IF fail[1] = j THEN SubSeq(calls[j].rows, 1, fail[2])
    ELSE IF fail[1] # 0 /\ fail[1] < j /\ calls[j].try = calls[fail[1]].try THEN <<>>
    ELSE calls[j].rows

\* the tables of the transaction after a list of calls
ApplyCalls(tables, calls, fail) ==
    [t \in DOMAIN tables |-> tables[t] \cup UNION {Range(Inserted(calls, j, fail)) : j \in {c \in 1..Len(calls) : calls[c].table = t}}]

\* a row of one of the three annotation tables
annotation_row(id, source, attribute) == [ID |-> id, annot_name |-> "talon_run", source |-> source, attribute |-> attribute, value |-> "NOVEL"]

\* a sequence with f applied to every entry that passes keep
RECURSIVE MapSeq(_, _, _)
MapSeq(f(_), keep(_), entries) ==
    IF entries = <<>> THEN <<>>
    ELSE (IF keep(Head(entries)) THEN <<f(Head(entries))>> ELSE <<>>) \o MapSeq(f, keep, Tail(entries))

EveryEntry(x) == TRUE

\* batch_add_genes: per batch the genes insert and the gene_annotations
\* insert, each in a try block of its own
batch_add_genes_calls(staged, batch_size) ==
    LET novel_tuples == ValuesOf(staged["genes"])
        entry(nt) == [gene_ID |-> nt.gene_ID]
        annot(nt) == annotation_row(nt.gene_ID, nt.dataset, "gene_status")
    IN  PairedCalls("genes", Batches(MapSeq(entry, EveryEntry, novel_tuples), 0, batch_size),
                    "gene_annotations", Batches(MapSeq(annot, EveryEntry, novel_tuples), 0, batch_size), FALSE, 1)

\* batch_add_transcripts: per batch the transcripts insert (nt[0:6]) and the
\* transcript_annotations insert, each in a try block of its own
batch_add_transcripts_calls(staged, batch_size) ==
    LET novel_tuples == ValuesOf(staged["transcripts"])
        entry(nt) == [transcript_id |-> nt.transcript_id, gene_id |-> nt.gene_id, path |-> nt.path,
                      start_vertex |-> nt.start_vertex, end_vertex |-> nt.end_vertex, n_exons |-> nt.n_exons]
        annot(nt) == annotation_row(nt.transcript_id, nt.dataset, "transcript_status")
    IN  PairedCalls("transcripts", Batches(MapSeq(entry, EveryEntry, novel_tuples), 0, batch_size),
                    "transcript_annotations", Batches(MapSeq(annot, EveryEntry, novel_tuples), 0, batch_size), FALSE, 1)

\* batch_add_edges: the loop over the edge batches (entry[0:4]), then the
\* loop over the batches of the exon annotations
batch_add_edges_calls(staged, batch_size) ==
    LET edge_tuples == ValuesOf(staged["edges"])
        entry(e) == [edge_ID |-> e.edge_ID, v1 |-> e.v1, v2 |-> e.v2, edge_type |-> e.edge_type]
        is_exon(e) == e.edge_type = "exon"
        annot(e) == annotation_row(e.edge_ID, e.dataset, "exon_status")
        first == SingleCalls("edge", Batches(MapSeq(entry, EveryEntry, edge_tuples), 0, batch_size), 1)
    IN  first \o SingleCalls("exon_annotations", Batches(MapSeq(annot, is_exon, edge_tuples), 0, batch_size), Len(first) + 1)

\* batch_add_vertices_and_locations: per batch the vertex insert and the
\* location insert, both in one try block
batch_add_vertices_and_locations_calls(staged, genome_build, batch_size) ==
    LET novel_tuples == ValuesOf(staged["vertices"])
        entry(nt) == [vertex_ID |-> nt.vertex_ID, gene_id |-> nt.gene_id]
        location(nt) == [location_id |-> nt.vertex_ID, genome_build |-> genome_build, chromosome |-> nt.chromosome, position |-> nt.position, strand |-> nt.strand]
    IN  PairedCalls("vertex", Batches(MapSeq(entry, EveryEntry, novel_tuples), 0, batch_size),
                    "location", Batches(MapSeq(location, EveryEntry, novel_tuples), 0, batch_size), TRUE, 1)

\* batch_add_observed: one insert per batch of the observed records
batch_add_observed_calls(staged, batch_size) == SingleCalls("observed", Batches(ValuesOf(staged["observed"]), 0, batch_size), 1)

\* add_datasets: one insert of all the staged datasets
add_datasets_calls(staged) == <<Call("dataset", ValuesOf(staged["datasets"]), 1)>>

\* the entries of a sequence without repetition, in order of first occurrence
RECURSIVE FirstSeen(_)
FirstSeen(entries) ==
    IF entries = <<>> THEN <<>>
    ELSE LET before == FirstSeen(SubSeq(entries, 1, Len(entries) - 1))
         IN  IF entries[Len(entries)] \in Range(before) THEN before ELSE Append(before, entries[Len(entries)])

\* the concatenation of a sequence of sequences
RECURSIVE Flatten(_)
Flatten(ss) == IF ss = <<>> THEN <<>> ELSE Head(ss) \o Flatten(Tail(ss))

\* batch_add_abundance, the tuples: the transcripts in the order the
\* dictionary got them, and under each its datasets in the order it got
\* them; that order is the order of first occurrence among the reads
abundance_tuples(abundance_dict, sam_transcripts) ==
    LET transcript_of(r) == r.transcript_ID
        transcript_ids == FirstSeen(MapSeq(transcript_of, EveryEntry, sam_transcripts))
        of(t) ==
            LET dataset_of(r) == r.dataset
                assigned(r) == r.transcript_ID = t
                tuple(d) == [transcript_id |-> t, dataset |-> d, count |-> abundance_dict[t][d]]
            IN  MapSeq(tuple, EveryEntry, FirstSeen(MapSeq(dataset_of, assigned, sam_transcripts)))
    IN  Flatten([i \in 1..Len(transcript_ids) |-> of(transcript_ids[i])])

\* batch_add_abundance: one insert per batch of the abundance tuples
batch_add_abundance_calls(abundance_dict, sam_transcripts, batch_size) ==
    SingleCalls("abundance", Batches(abundance_tuples(abundance_dict, sam_transcripts), 0, batch_size), 1)

\* a batch_add_* function as a step of update_database: every executemany of
\* the function, any one of them failing inside its try block
batch_add(stage, next_stage, calls) ==
    /\ pc = stage
    /\ \E issued \in {calls} :
       \E fail \in FailChoices(issued, failures) :
        /\ cursor' = [cursor EXCEPT !.tables = ApplyCalls(@, issued, fail)]
        /\ failures' = IF fail[1] = 0 THEN failures ELSE failures + 1
    /\ pc' = next_stage
    /\ UNCHANGED <<db, conn, gene_tree, transcripts, exon_tree, intron_tree, vertices, counter, novel_ids, abundance, all_sam_transcripts, dataset, n_datasets, location_dict, vertex_counter, positions, vertex_IDs, novelty, sam_file, sam_line, sam_transcripts_list, sam_log, sam_pc, options, config_file, sam_files, dataset_metadata, args_pc, chrom_annotations, chrom_pos, populate_pc, init_vertices, init_edges, vertex_calls, edge_calls, currTranscript, add_exon_calls, gtf_genes, gtf_transcripts, min_length, filtered_genes, filtered_transcripts, filter_pc, gtf_file, gtf_line, gtf_exons, loop_entries, loop_batch_size, loop_index, loop_calls, loop_pc, counters_table, update_arg, fetched_counter, counters_pc>>

\* the update wanted whatever the option
update_wanted_always(opts) == TRUE

\* main, the test before update_database: options.noUpdate == None
update_wanted(opts) == opts.noUpdate = "None"

\* update_database, the connection: main reaches it after the loop over the
\* datasets, and exits before it when the config names no dataset
update_database ==
    /\ pc = "identify"
    /\ n_datasets > 0
    /\ update_wanted(options)
    /\ conn' = "open"
    /\ cursor' = db
    /\ failures' = 0
    /\ pc' = "genes"
    /\ UNCHANGED <<db, gene_tree, transcripts, exon_tree, intron_tree, vertices, counter, novel_ids, abundance, all_sam_transcripts, dataset, n_datasets, location_dict, vertex_counter, positions, vertex_IDs, novelty, sam_file, sam_line, sam_transcripts_list, sam_log, sam_pc, options, config_file, sam_files, dataset_metadata, args_pc, chrom_annotations, chrom_pos, populate_pc, init_vertices, init_edges, vertex_calls, edge_calls, currTranscript, add_exon_calls, gtf_genes, gtf_transcripts, min_length, filtered_genes, filtered_transcripts, filter_pc, gtf_file, gtf_line, gtf_exons, loop_entries, loop_batch_size, loop_index, loop_calls, loop_pc, counters_table, update_arg, fetched_counter, counters_pc>>

batch_add_genes == batch_add("genes", "transcripts", batch_add_genes_calls(novel_ids, BatchSize))

batch_add_transcripts == batch_add("transcripts", "edges", batch_add_transcripts_calls(novel_ids, BatchSize))

batch_add_edges == batch_add("edges", "vertices", batch_add_edges_calls(novel_ids, BatchSize))

batch_add_vertices_and_locations == batch_add("vertices", "observed", batch_add_vertices_and_locations_calls(novel_ids, GenomeBuild, BatchSize))

\* add_datasets called in the place of batch_add_observed
batch_add_observed_as_datasets == batch_add("observed", "datasets", add_datasets_calls(novel_ids))

batch_add_observed == batch_add("observed", "datasets", batch_add_observed_calls(novel_ids, BatchSize))

add_datasets == batch_add("datasets", "counter", add_datasets_calls(novel_ids))

\* update_counter: the six UPDATEs of the counters table
counters_after_update(counters, memory_counter) ==
    [c \in DOMAIN counters |-> IF \E k \in CounterKeys : CategoryOf(k) = c THEN memory_counter[CHOOSE k \in CounterKeys : CategoryOf(k) = c] ELSE counters[c]]

update_counter ==
    /\ pc = "counter"
    /\ cursor' = [cursor EXCEPT !.counters = counters_after_update(@, counter)]
    /\ pc' = "abundance"
    /\ UNCHANGED <<db, conn, failures, gene_tree, transcripts, exon_tree, intron_tree, vertices, counter, novel_ids, abundance, all_sam_transcripts, dataset, n_datasets, location_dict, vertex_counter, positions, vertex_IDs, novelty, sam_file, sam_line, sam_transcripts_list, sam_log, sam_pc, options, config_file, sam_files, dataset_metadata, args_pc, chrom_annotations, chrom_pos, populate_pc, init_vertices, init_edges, vertex_calls, edge_calls, currTranscript, add_exon_calls, gtf_genes, gtf_transcripts, min_length, filtered_genes, filtered_transcripts, filter_pc, gtf_file, gtf_line, gtf_exons, loop_entries, loop_batch_size, loop_index, loop_calls, loop_pc, counters_table, update_arg, fetched_counter, counters_pc>>

batch_add_abundance == batch_add("abundance", "check", batch_add_abundance_calls(abundance, all_sam_transcripts, BatchSize))

\* the comparison with > in place of !=: a table short of rows passes
integrity_ok_only_excess(view) == \A table_name \in DOMAIN view.counters : Cardinality(view.tables[table_name]) <= view.counters[table_name]

\* check_database_integrity, the comparison: every row of the counters table
\* against the row count of the table it names
integrity_ok(view) == \A table_name \in DOMAIN view.counters : Cardinality(view.tables[table_name]) = view.counters[table_name]

\* check_database_integrity printing the mismatch without raising
check_database_integrity_no_raise ==
    /\ pc = "check"
    /\ pc' = "commit"
    /\ UNCHANGED <<db, conn, cursor, failures, gene_tree, transcripts, exon_tree, intron_tree, vertices, counter, novel_ids, abundance, all_sam_transcripts, dataset, n_datasets>>
    /\ UNCHANGED splice_vars
    /\ UNCHANGED sam_vars
    /\ UNCHANGED args_vars
    /\ UNCHANGED populate_vars
    /\ UNCHANGED create_vars
    /\ UNCHANGED transcript_vars
    /\ UNCHANGED filter_vars
    /\ UNCHANGED gtf_vars
    /\ UNCHANGED batch_vars
    /\ UNCHANGED counter_vars

\* check_database_integrity: returns, or raises ValueError; update_database
\* does not catch it, so the commit and the close are skipped
check_database_integrity ==
    /\ pc = "check"
    /\ pc' = IF integrity_ok(cursor) THEN "commit" ELSE "raised"
    /\ UNCHANGED <<db, conn, cursor, failures, gene_tree, transcripts, exon_tree, intron_tree, vertices, counter, novel_ids, abundance, all_sam_transcripts, dataset, n_datasets, location_dict, vertex_counter, positions, vertex_IDs, novelty, sam_file, sam_line, sam_transcripts_list, sam_log, sam_pc, options, config_file, sam_files, dataset_metadata, args_pc, chrom_annotations, chrom_pos, populate_pc, init_vertices, init_edges, vertex_calls, edge_calls, currTranscript, add_exon_calls, gtf_genes, gtf_transcripts, min_length, filtered_genes, filtered_transcripts, filter_pc, gtf_file, gtf_line, gtf_exons, loop_entries, loop_batch_size, loop_index, loop_calls, loop_pc, counters_table, update_arg, fetched_counter, counters_pc>>

\* conn.commit() and conn.close(): the transaction becomes the database
commit ==
    /\ pc = "commit"
    /\ db' = cursor
    /\ conn' = "closed"
    /\ pc' = "done"
    /\ UNCHANGED <<cursor, failures, gene_tree, transcripts, exon_tree, intron_tree, vertices, counter, novel_ids, abundance, all_sam_transcripts, dataset, n_datasets, location_dict, vertex_counter, positions, vertex_IDs, novelty, sam_file, sam_line, sam_transcripts_list, sam_log, sam_pc, options, config_file, sam_files, dataset_metadata, args_pc, chrom_annotations, chrom_pos, populate_pc, init_vertices, init_edges, vertex_calls, edge_calls, currTranscript, add_exon_calls, gtf_genes, gtf_transcripts, min_length, filtered_genes, filtered_transcripts, filter_pc, gtf_file, gtf_line, gtf_exons, loop_entries, loop_batch_size, loop_index, loop_calls, loop_pc, counters_table, update_arg, fetched_counter, counters_pc>>

\* the reads of the runs that are followed through the flush
FlushReads == {r \in Reads : r.strand = "+" /\ r.exons \in {<< <<1, 2>> >>, << <<1, 2>>, <<3, 5>> >>}}

\* a read of the current dataset, any read
ProcessRead == identify_sam_transcripts(Reads)

Next == StartDataset \/ ProcessRead

Spec == Init /\ [][Next]_vars

\* the exon lists with a one-base exon: SAM positions are 1-based and
\* inclusive, so the start of such an exon equals its end
OneBaseExonLists ==
    {<< <<a, a>> >> : a \in Positions}
    \cup {<< <<q[1], q[1]>>, <<q[2], q[3]>> >> : q \in {p \in Positions \X Positions \X Positions : p[1] < p[2] /\ p[2] < p[3]}}

OneBaseReads == [chromosome : Chromosomes, strand : Strands, exons : OneBaseExonLists]

\* a read of the current dataset, one with a one-base exon
ProcessOneBaseRead == identify_sam_transcripts(OneBaseReads)

NextOneBase == StartDataset \/ ProcessOneBaseRead

SpecOneBase == Init /\ [][NextOneBase]_vars

\* identify_sam_transcripts, the body of the loop for a read the tracker
\* found full matches for; the tracker's full_matches is drawn: any
\* non-empty set of known transcripts of the read's chromosome and strand,
\* and is kept on the read next to its best match
identify_full_match ==
    /\ pc = "identify"
    /\ dataset # ""
    /\ Len(all_sam_transcripts) < MaxReads
    /\ \E read \in Reads :
        \E full \in (SUBSET {t \in DOMAIN transcripts : transcripts[t].chromosome = read.chromosome /\ transcripts[t].strand = read.strand}) \ {{}} :
        \E m \in {Memory} :
        \E sam_transcript \in {get_sam_transcript(read, Len(all_sam_transcripts) + 1, dataset)} :
        \E best \in {get_best_full_match(sam_transcript, full, transcripts)} :
        \E sam1 \in {[gene_ID |-> transcripts[best].gene_id, transcript_ID |-> transcripts[best].identifier,
                     novel |-> "Seen_previously", match_type |-> "full", best_match |-> best,
                     full_matches |-> full] @@ sam_transcript} :
        \E r2 \in {get_transcript_start_and_end_diffs(sam1, transcripts[best], dataset, m)} :
            /\ counter' = r2.m.counter
            /\ novel_ids' = r2.m.novel_ids
            /\ abundance' = add_abundance(abundance, transcripts[best].identifier, dataset)
            /\ all_sam_transcripts' = Append(all_sam_transcripts, r2.sam)
    /\ UNCHANGED <<gene_tree, transcripts, exon_tree, intron_tree, vertices>>
    /\ UNCHANGED <<pc, db, conn, cursor, failures, dataset, n_datasets>>
    /\ UNCHANGED splice_vars
    /\ UNCHANGED sam_vars
    /\ UNCHANGED args_vars
    /\ UNCHANGED populate_vars
    /\ UNCHANGED create_vars
    /\ UNCHANGED transcript_vars
    /\ UNCHANGED filter_vars
    /\ UNCHANGED gtf_vars
    /\ UNCHANGED batch_vars
    /\ UNCHANGED counter_vars

NextMatch == StartDataset \/ identify_full_match

SpecMatch == Init /\ [][NextMatch]_vars

\* reads matched by the tracker of the model and reads with drawn full
\* matches, so that a full match may be a transcript minted for a read
NextDiffs == StartDataset \/ ProcessRead \/ identify_full_match

SpecDiffs == Init /\ [][NextDiffs]_vars

\* a run with or without --noUpdate
InitRun ==
    /\ \E annotation \in Annotations : RunInit(annotation)
    /\ location_dict = [c \in Chromosomes |-> EmptyDict]
    /\ vertex_counter = 0
    /\ positions = <<>>
    /\ vertex_IDs = <<>>
    /\ novelty = <<>>
    /\ NoSamFile
    /\ options \in {opts \in Options : opts.build = GenomeBuild}
    /\ config_file = <<>>
    /\ sam_files = <<>>
    /\ dataset_metadata = <<>>
    /\ args_pc = "returned"
    /\ NoPopulate
    /\ NoCreate
    /\ NoTranscript
    /\ NoFilter
    /\ NoGtf
    /\ NoBatch
    /\ NoCounters

\* a read of the current dataset, one of FlushReads
ProcessFlushRead == identify_sam_transcripts(FlushReads)

NextFlush ==
    \/ StartDataset
    \/ ProcessFlushRead
    \/ update_database
    \/ batch_add_genes
    \/ batch_add_transcripts
    \/ batch_add_edges
    \/ batch_add_vertices_and_locations
    \/ batch_add_observed
    \/ add_datasets
    \/ update_counter
    \/ batch_add_abundance
    \/ check_database_integrity
    \/ commit

SpecFlush == Init /\ [][NextFlush]_vars

SpecRun == InitRun /\ [][NextFlush]_vars

\* ------------------------------------------------------------------------
\* match_splice_vertices (testing_suite/test_match_all_splice_vertices.py)
\* ------------------------------------------------------------------------
\* the vertex at a position of a chromosome, None when the index has none
search_for_vertex_at_pos(chromosome, position, locations) ==
    IF chromosome \in DOMAIN locations /\ position \in DOMAIN locations[chromosome] THEN locations[chromosome][position] ELSE None

\* the id of a new vertex taken before the counter is incremented
stale_vertex_id(count) == count

\* the id of a new vertex: the vertex counter after its increment
new_vertex_id(count) == count + 1

\* match_splice_vertices, the loop over the splice positions: every position
\* but the first and the last.  acc = [vertex_IDs, novelty, location_dict,
\* vertex_counter]
RECURSIVE splice_vertices(_, _, _, _)
splice_vertices(chromosome, pos, i, acc) ==
    IF i > Len(pos) - 1 THEN acc
    ELSE With(search_for_vertex_at_pos(chromosome, pos[i], acc.location_dict), LAMBDA vertex_match :
         With(IF vertex_match = None
              THEN [vertex_IDs |-> Append(acc.vertex_IDs, new_vertex_id(acc.vertex_counter)), novelty |-> Append(acc.novelty, 1),
                    location_dict |-> [acc.location_dict EXCEPT ![chromosome] = Put(@, pos[i], new_vertex_id(acc.vertex_counter))],
                    vertex_counter |-> acc.vertex_counter + 1]
              ELSE [acc EXCEPT !.vertex_IDs = Append(@, vertex_match), !.novelty = Append(@, 0)], LAMBDA next :
         splice_vertices(chromosome, pos, i + 1, next)))

\* match_splice_vertices: the vertex id of every splice position, in order,
\* and whether it was minted
match_splice_vertices(chromosome, pos, strand, locations, count) ==
    splice_vertices(chromosome, pos, 2, [vertex_IDs |-> <<>>, novelty |-> <<>>, location_dict |-> locations, vertex_counter |-> count])

\* the coordinates match_splice_vertices is called on
SplicePositions == 1..MaxSplicePos

\* the position lists it is called on: the boundaries of one, two or three
\* exons, strictly ascending
SplicePositionLists ==
    {pos \in UNION {[1..n -> SplicePositions] : n \in {2, 4, 6}} : \A i \in 1..(Len(pos) - 1) : pos[i] < pos[i + 1]}

\* make_location_dict and the vertex counter on a database that knows some
\* of the positions of chr1, its vertex ids ascending with the position
InitSplice ==
    /\ RunInit([genes |-> <<>>, transcripts |-> <<>>])
    /\ \E known \in SUBSET SplicePositions :
        /\ location_dict = [c \in Chromosomes |-> [p \in known |-> Cardinality({q \in known : q <= p})]]
        /\ vertex_counter = Cardinality(known)
    /\ positions = <<>>
    /\ vertex_IDs = <<>>
    /\ novelty = <<>>
    /\ NoSamFile
    /\ NoArgs
    /\ NoPopulate
    /\ NoCreate
    /\ NoTranscript
    /\ NoFilter
    /\ NoGtf
    /\ NoBatch
    /\ NoCounters

\* one call of match_splice_vertices on the positions of a read
MatchSpliceVertices ==
    \E chromosome \in Chromosomes, strand \in Strands, pos \in SplicePositionLists :
    \E r \in {match_splice_vertices(chromosome, pos, strand, location_dict, vertex_counter)} :
        /\ positions' = pos
        /\ vertex_IDs' = r.vertex_IDs
        /\ novelty' = r.novelty
        /\ location_dict' = r.location_dict
        /\ vertex_counter' = r.vertex_counter
        /\ UNCHANGED run_vars
        /\ UNCHANGED sam_vars
        /\ UNCHANGED args_vars
        /\ UNCHANGED populate_vars
        /\ UNCHANGED create_vars
        /\ UNCHANGED transcript_vars
        /\ UNCHANGED filter_vars
        /\ UNCHANGED gtf_vars
        /\ UNCHANGED batch_vars
        /\ UNCHANGED counter_vars

NextSplice == MatchSpliceVertices

SpecSplice == InitSplice /\ [][NextSplice]_vars

\* ------------------------------------------------------------------------
\* process_sam_file
\* ------------------------------------------------------------------------

MaxSamLines == 2

\* A line of the SAM file, by what process_sam_file asks of it: whether it
\* starts with "@", whether it has its mandatory columns or stops before
\* the sequence column, its flag column, whether its sequence has
\* min_length bases, whether it has an MD:Z: field, whether its coverage
\* and identity reach the cutoffs, and whether
\* SamTranscript.get_sam_transcript returns for it.
SamLines ==
    [header : BOOLEAN, columns : {"all", "truncated"}, flag : {"0", "16", "4"},
     long : BOOLEAN, md : BOOLEAN, passes : BOOLEAN, converts : BOOLEAN]

SamFiles == UNION {[1..n -> SamLines] : n \in 0..MaxSamLines}

\* one pass of the loop body over a line, in the order of its tests
sam_line_outcome_strict(line) ==
    IF line.header THEN "continue"
    ELSE IF line.flag \notin {"0", "16"} THEN "continue"
    ELSE IF line.columns = "truncated" THEN "raise"
    ELSE IF ~line.long THEN "continue"
    ELSE IF ~line.md THEN "raise"
    ELSE IF ~line.passes THEN "log"
    ELSE IF line.converts THEN "append"
    ELSE "raise"

sam_line_outcome(line) ==
    IF line.header THEN "continue"
    ELSE IF line.flag \notin {"0", "16"} THEN "continue"
    ELSE IF line.columns = "truncated" THEN "raise"
    ELSE IF ~line.long THEN "continue"
    ELSE IF ~line.md THEN "raise"
    ELSE IF ~line.passes THEN "log"
    ELSE IF line.converts THEN "append"
    ELSE "continue"

InitSam ==
    /\ RunInit([genes |-> <<>>, transcripts |-> <<>>])
    /\ location_dict = [c \in Chromosomes |-> EmptyDict]
    /\ vertex_counter = 0
    /\ positions = <<>>
    /\ vertex_IDs = <<>>
    /\ novelty = <<>>
    /\ sam_file \in SamFiles
    /\ sam_line = 1
    /\ sam_transcripts_list = <<>>
    /\ sam_log = <<>>
    /\ sam_pc = "reading"
    /\ NoArgs
    /\ NoPopulate
    /\ NoCreate
    /\ NoTranscript
    /\ NoFilter
    /\ NoGtf
    /\ NoBatch
    /\ NoCounters

\* the loop body for the line the loop is at; a read is named by its line
ProcessSamLine ==
    /\ sam_pc = "reading"
    /\ sam_line <= Len(sam_file)
    /\ \E outcome \in {sam_line_outcome(sam_file[sam_line])} :
        /\ sam_pc' = IF outcome = "raise" THEN "raised" ELSE "reading"
        /\ sam_line' = IF outcome = "raise" THEN sam_line ELSE sam_line + 1
        /\ sam_transcripts_list' =
               IF outcome = "append" THEN Append(sam_transcripts_list, sam_line)
               ELSE sam_transcripts_list
        /\ sam_log' = IF outcome = "log" THEN Append(sam_log, sam_line) ELSE sam_log
    /\ UNCHANGED sam_file
    /\ UNCHANGED run_vars
    /\ UNCHANGED splice_vars
    /\ UNCHANGED args_vars
    /\ UNCHANGED populate_vars
    /\ UNCHANGED create_vars
    /\ UNCHANGED transcript_vars
    /\ UNCHANGED filter_vars
    /\ UNCHANGED gtf_vars
    /\ UNCHANGED batch_vars
    /\ UNCHANGED counter_vars

\* the end of the file: the list is returned
ReturnSamTranscripts ==
    /\ sam_pc = "reading"
    /\ sam_line = Len(sam_file) + 1
    /\ sam_pc' = "returned"
    /\ UNCHANGED <<sam_file, sam_line, sam_transcripts_list, sam_log>>
    /\ UNCHANGED run_vars
    /\ UNCHANGED splice_vars
    /\ UNCHANGED args_vars
    /\ UNCHANGED populate_vars
    /\ UNCHANGED create_vars
    /\ UNCHANGED transcript_vars
    /\ UNCHANGED filter_vars
    /\ UNCHANGED gtf_vars
    /\ UNCHANGED batch_vars
    /\ UNCHANGED counter_vars

NextSam == ProcessSamLine \/ ReturnSamTranscripts

SpecSam == InitSam /\ [][NextSam]_vars

\* ------------------------------------------------------------------------
\* checkArgs
\* ------------------------------------------------------------------------

MaxConfigLines == 2

\* A line of the config file, by what checkArgs asks of it: its first
\* field, the number of its comma-separated fields, and whether its last
\* field ends with ".sam".  A SAM file is named by the line that holds it.
ConfigLines == [dataname : DatasetNames, fields : {3, 4}, sam : BOOLEAN]

ConfigFiles == UNION {[1..n -> ConfigLines] : n \in 0..MaxConfigLines}

\* Python's value == False for the values of options.noUpdate: neither None
\* nor True equals False
equals_False(value) == value = "False"

\* checkArgs, existing_datasets: the names in the dataset table
existing_datasets(database) == {row.dataset_name : row \in database.tables["dataset"]}

\* checkArgs, the loop over the lines of the config file from line i on,
\* with the lists collected so far
RECURSIVE check_config_lines(_, _, _, _, _)
check_config_lines(lines, i, opts, existing, acc) ==
    IF i > Len(lines) THEN acc
    ELSE IF lines[i].fields # 4 THEN [acc EXCEPT !.pc = "raised"]
    ELSE IF lines[i].dataname \in existing /\ equals_False(opts.noUpdate)
         THEN check_config_lines(lines, i + 1, opts, existing, acc)
    ELSE LET metadata == [dataset_name |-> lines[i].dataname, sample |-> "sample", platform |-> "platform"]
             acc1 == [acc EXCEPT !.dataset_metadata = Append(@, metadata)]
         IN  IF ~lines[i].sam THEN [acc1 EXCEPT !.pc = "raised"]
             ELSE check_config_lines(lines, i + 1, opts, existing, [acc1 EXCEPT !.sam_files = Append(@, i)])

\* checkArgs: the build test, then the loop; what it returns, or that it
\* raised
checkArgs(opts, lines, database) ==
    IF opts.build \notin {row.name : row \in database.tables["genome_build"]}
    THEN [pc |-> "raised", sam_files |-> <<>>, dataset_metadata |-> <<>>]
    ELSE With(check_config_lines(lines, 1, opts, existing_datasets(database),
                                 [pc |-> "returned", sam_files |-> <<>>, dataset_metadata |-> <<>>]), LAMBDA r :
         IF r.pc = "raised" THEN [pc |-> "raised", sam_files |-> <<>>, dataset_metadata |-> <<>>] ELSE r)

\* a database of an earlier run: initialized from an empty annotation, with
\* the datasets of that run in its dataset table
DatabaseWithDatasets(names) ==
    With(populate_db([genes |-> <<>>, transcripts |-> <<>>]), LAMBDA database :
    With(CHOOSE f \in [1..Cardinality(names) -> names] : \A x \in names : \E k \in DOMAIN f : f[k] = x, LAMBDA ordered :
    [database EXCEPT
        !.tables["dataset"] = {[dataset_ID |-> k, dataset_name |-> ordered[k], sample |-> "sample", platform |-> "platform"] : k \in 1..Len(ordered)},
        !.counters["dataset"] = Len(ordered)]))

InitArgs ==
    /\ \E names \in SUBSET DatasetNames :
       \E database \in {DatabaseWithDatasets(names)} :
       \E a \in {read_annotation(database)} :
        /\ db = database
        /\ gene_tree = a.gene_tree
        /\ transcripts = a.transcripts
        /\ exon_tree = a.exon_tree
        /\ intron_tree = a.intron_tree
        /\ vertices = a.vertices
        /\ counter = a.counter
        /\ novel_ids = [c \in CounterKeys |-> EmptyDict]
        /\ abundance = EmptyDict
        /\ all_sam_transcripts = <<>>
        /\ dataset = ""
        /\ n_datasets = 0
        /\ pc = "identify"
        /\ conn = "none"
        /\ cursor = database
        /\ failures = 0
    /\ location_dict = [c \in Chromosomes |-> EmptyDict]
    /\ vertex_counter = 0
    /\ positions = <<>>
    /\ vertex_IDs = <<>>
    /\ novelty = <<>>
    /\ NoSamFile
    /\ options \in Options
    /\ config_file \in ConfigFiles
    /\ sam_files = <<>>
    /\ dataset_metadata = <<>>
    /\ args_pc = "checking"
    /\ NoPopulate
    /\ NoCreate
    /\ NoTranscript
    /\ NoFilter
    /\ NoGtf
    /\ NoBatch
    /\ NoCounters

\* main, the call of checkArgs
CheckArgs ==
    /\ args_pc = "checking"
    /\ \E r \in {checkArgs(options, config_file, db)} :
        /\ args_pc' = r.pc
        /\ sam_files' = r.sam_files
        /\ dataset_metadata' = r.dataset_metadata
    /\ UNCHANGED <<options, config_file>>
    /\ UNCHANGED run_vars
    /\ UNCHANGED splice_vars
    /\ UNCHANGED sam_vars
    /\ UNCHANGED populate_vars
    /\ UNCHANGED create_vars
    /\ UNCHANGED transcript_vars
    /\ UNCHANGED filter_vars
    /\ UNCHANGED gtf_vars
    /\ UNCHANGED batch_vars
    /\ UNCHANGED counter_vars

NextArgs == CheckArgs

SpecArgs == InitArgs /\ [][NextArgs]_vars

\* ------------------------------------------------------------------------
\* populate_db, one chromosome at a time
\* (src/initialize_talon_database.py)
\* ------------------------------------------------------------------------

MaxChromosomes == 2

\* the chromosomes of a GTF file, in the order of the dictionary chrom_genes
ChromosomeNames == <<"chr1", "chr2", "chr3">>

\* the genes and transcripts of an annotation, on a chromosome
OnChromosome(annotation, chromosome) ==
    [chromosome |-> chromosome, genes |-> annotation.genes,
     transcripts |-> [i \in DOMAIN annotation.transcripts |-> [annotation.transcripts[i] EXCEPT !.chromosome = chromosome]]]

\* what a chromosome of a GTF file may hold: the annotations the runs start
\* from, a transcript with a one-base exon, a gene without a transcript
\* next to one with a transcript, and the same transcript entered twice
ChromosomeAnnotations ==
    {a \in Annotations : a.genes # <<>>}
    \cup { [genes |-> <<"gA">>, transcripts |-> <<GtfTranscript("gA", "+", << <<2, 2>>, <<4, 5>> >>)>>],
           [genes |-> <<"gA", "gB">>, transcripts |-> <<GtfTranscript("gB", "-", << <<1, 3>> >>)>>],
           [genes |-> <<"gA">>, transcripts |-> <<GtfTranscript("gA", "-", << <<1, 2>>, <<4, 5>> >>), GtfTranscript("gA", "-", << <<1, 2>>, <<4, 5>> >>)>>] }

\* organize_by_chromosome: the GTF files, as the genes and transcripts of
\* each chromosome; a chromosome of the dictionary has a gene
GtfFiles ==
    UNION {{[k \in 1..n |-> OnChromosome(f[k], ChromosomeNames[k])] :
                f \in [1..n -> ChromosomeAnnotations]} : n \in 0..MaxChromosomes}

\* add_genes: one gene row per gene, the ids from the genes counter + 1 on,
\* the counter set to the last id; gene_id_map from native to database id
add_genes(database, genes) ==
    LET gene_counter == database.counters["genes"]
    IN  [database |-> [database EXCEPT
                          !.tables["genes"] = @ \cup {[gene_ID |-> gene_counter + i] : i \in 1..Len(genes)},
                          !.counters["genes"] = gene_counter + Len(genes)],
         gene_id_map |-> [native \in Range(genes) |-> gene_counter + (CHOOSE i \in 1..Len(genes) : genes[i] = native)]]

\* the vertices dictionary started at counter 0
vertices_from_zero(database) == [counter |-> 0, rows |-> {}]

\* add_transcripts: the vertices dictionary of a call, empty, its counter
\* read from the counters table
vertices_from_counter(database) == [counter |-> database.counters["vertex"], rows |-> {}]

\* add_transcripts: the edges dictionary of a call
edges_from_counter(database) == [counter |-> database.counters["edge"], rows |-> {}]

\* add_transcripts, the loop over the transcripts of a chromosome.
\* acc = [transcripts, vertices, edges, exon_annotations]; the exon
\* annotations are inserted as the loop goes (INSERT OR IGNORE)
RECURSIVE add_transcripts_loop(_, _, _, _, _)
add_transcripts_loop(chrom_transcripts, i, counter0, id_map, acc) ==
    IF i > Len(chrom_transcripts) THEN acc
    ELSE LET transcript == chrom_transcripts[i]
             db_gene_id == id_map[transcript.gene_id]
         IN  With(process_transcript(transcript, db_gene_id, GenomeBuild, acc.vertices, acc.edges), LAMBDA r :
             With([transcript_id |-> counter0 + i, gene_id |-> db_gene_id, path |-> r.transcript_path], LAMBDA row :
             With([transcripts |-> acc.transcripts \cup {row}, vertices |-> r.vertices, edges |-> r.edges,
                   exon_annotations |-> acc.exon_annotations \cup r.exon_annotations], LAMBDA next :
             add_transcripts_loop(chrom_transcripts, i + 1, counter0, id_map, next))))

\* add_transcripts: the loop, then bulk_update_transcripts,
\* bulk_update_vertices and bulk_update_edges, each with its counter
add_transcripts_of_chromosome(database, chrom_transcripts, id_map) ==
    With(add_transcripts_loop(chrom_transcripts, 1, database.counters["transcripts"], id_map,
             [transcripts |-> {}, vertices |-> vertices_from_counter(database), edges |-> edges_from_counter(database), exon_annotations |-> {}]), LAMBDA r :
    [database EXCEPT
        !.tables["transcripts"] = @ \cup r.transcripts,
        !.tables["exon_annotations"] = @ \cup r.exon_annotations,
        !.counters["transcripts"] = database.counters["transcripts"] + Len(chrom_transcripts),
        !.tables["vertex"] = @ \cup {[vertex_ID |-> v.vertex_ID, gene_id |-> v.gene_id] : v \in r.vertices.rows},
        !.tables["location"] = @ \cup {[location_id |-> v.vertex_ID, genome_build |-> v.genome_build, chromosome |-> v.chromosome, position |-> v.pos, strand |-> v.strand] : v \in r.vertices.rows},
        !.counters["vertex"] = r.vertices.counter,
        !.tables["edge"] = @ \cup r.edges.rows,
        !.counters["edge"] = r.edges.counter])

\* populate_db, the body of the loop for one chromosome, up to the commit
populate_chromosome(database, chrom) ==
    With(add_genes(database, chrom.genes), LAMBDA g :
    add_transcripts_of_chromosome(g.database, chrom.transcripts, g.gene_id_map))

InitPopulate ==
    /\ \E database \in {populate_db([genes |-> <<>>, transcripts |-> <<>>])} :
       \E a \in {read_annotation(database)} :
        /\ db = database
        /\ gene_tree = a.gene_tree
        /\ transcripts = a.transcripts
        /\ exon_tree = a.exon_tree
        /\ intron_tree = a.intron_tree
        /\ vertices = a.vertices
        /\ counter = a.counter
        /\ novel_ids = [c \in CounterKeys |-> EmptyDict]
        /\ abundance = EmptyDict
        /\ all_sam_transcripts = <<>>
        /\ dataset = ""
        /\ n_datasets = 0
        /\ pc = "identify"
        /\ conn = "none"
        /\ cursor = database
        /\ failures = 0
    /\ location_dict = [c \in Chromosomes |-> EmptyDict]
    /\ vertex_counter = 0
    /\ positions = <<>>
    /\ vertex_IDs = <<>>
    /\ novelty = <<>>
    /\ NoSamFile
    /\ NoArgs
    /\ chrom_annotations \in GtfFiles
    /\ chrom_pos = 0
    /\ populate_pc = "running"
    /\ NoCreate
    /\ NoTranscript
    /\ NoFilter
    /\ NoGtf
    /\ NoBatch
    /\ NoCounters

\* populate_db, one pass of the loop: the genes and transcripts of the next
\* chromosome are written and committed
PopulateChromosome ==
    /\ populate_pc = "running"
    /\ chrom_pos < Len(chrom_annotations)
    /\ \E database \in {populate_chromosome(db, chrom_annotations[chrom_pos + 1])} :
        /\ cursor' = database
        /\ db' = database
    /\ chrom_pos' = chrom_pos + 1
    /\ UNCHANGED <<chrom_annotations, populate_pc>>
    /\ UNCHANGED <<pc, conn, failures, gene_tree, transcripts, exon_tree, intron_tree, vertices, counter, novel_ids, abundance, all_sam_transcripts, dataset, n_datasets>>
    /\ UNCHANGED splice_vars
    /\ UNCHANGED sam_vars
    /\ UNCHANGED args_vars
    /\ UNCHANGED create_vars
    /\ UNCHANGED transcript_vars
    /\ UNCHANGED filter_vars
    /\ UNCHANGED gtf_vars
    /\ UNCHANGED batch_vars
    /\ UNCHANGED counter_vars

\* populate_db, after the loop: the connection is closed
ClosePopulate ==
    /\ populate_pc = "running"
    /\ chrom_pos = Len(chrom_annotations)
    /\ populate_pc' = "closed"
    /\ UNCHANGED <<chrom_annotations, chrom_pos>>
    /\ UNCHANGED run_vars
    /\ UNCHANGED splice_vars
    /\ UNCHANGED sam_vars
    /\ UNCHANGED args_vars
    /\ UNCHANGED create_vars
    /\ UNCHANGED transcript_vars
    /\ UNCHANGED filter_vars
    /\ UNCHANGED gtf_vars
    /\ UNCHANGED batch_vars
    /\ UNCHANGED counter_vars

NextPopulate == PopulateChromosome \/ ClosePopulate

SpecPopulate == InitPopulate /\ [][NextPopulate]_vars

\* ------------------------------------------------------------------------
\* create_vertex and create_edge over a sequence of calls on one dictionary
\* ------------------------------------------------------------------------
MaxCreateCalls == 3

\* the arguments of the calls; "chr1" with 11 and "chr11" with 1 differ only
\* by where the separator of the key stands
CreateGenes == {1, 2}
CreateChromosomes == {"chr1", "chr11"}
CreatePositions == {1, 11}
CreateVertexIDs == {1, 2}
EdgeTypes == {"exon", "intron"}

\* add_transcripts: the dictionaries start empty, with the counters of the
\* database, which hold the rows already stored
CreateCounters == {0, 3}

InitCreate ==
    /\ \E database \in {populate_db([genes |-> <<>>, transcripts |-> <<>>])} :
       \E a \in {read_annotation(database)} :
        /\ db = database
        /\ gene_tree = a.gene_tree
        /\ transcripts = a.transcripts
        /\ exon_tree = a.exon_tree
        /\ intron_tree = a.intron_tree
        /\ vertices = a.vertices
        /\ counter = a.counter
        /\ novel_ids = [c \in CounterKeys |-> EmptyDict]
        /\ abundance = EmptyDict
        /\ all_sam_transcripts = <<>>
        /\ dataset = ""
        /\ n_datasets = 0
        /\ pc = "identify"
        /\ conn = "none"
        /\ cursor = database
        /\ failures = 0
    /\ location_dict = [c \in Chromosomes |-> EmptyDict]
    /\ vertex_counter = 0
    /\ positions = <<>>
    /\ vertex_IDs = <<>>
    /\ novelty = <<>>
    /\ NoSamFile
    /\ NoArgs
    /\ NoPopulate
    /\ \E vertex_count \in CreateCounters : init_vertices = [counter |-> vertex_count, rows |-> {}]
    /\ \E edge_count \in CreateCounters : init_edges = [counter |-> edge_count, rows |-> {}]
    /\ vertex_calls = <<>>
    /\ edge_calls = <<>>
    /\ NoTranscript
    /\ NoFilter
    /\ NoGtf
    /\ NoBatch
    /\ NoCounters

\* one call of create_vertex on the shared dictionary
CreateVertex ==
    /\ Len(vertex_calls) + Len(edge_calls) < MaxCreateCalls
    /\ \E gene_id \in CreateGenes, chromosome \in CreateChromosomes, pos \in CreatePositions, strand \in Strands :
       \E r \in {create_vertex(gene_id, GenomeBuild, chromosome, pos, strand, init_vertices)} :
        /\ init_vertices' = r.vertices
        /\ vertex_calls' = Append(vertex_calls,
              [gene_id |-> gene_id, genome_build |-> GenomeBuild, chromosome |-> chromosome, pos |-> pos, strand |-> strand,
               id |-> r.id, before |-> init_vertices, after |-> r.vertices])
    /\ UNCHANGED <<init_edges, edge_calls>>
    /\ UNCHANGED run_vars
    /\ UNCHANGED splice_vars
    /\ UNCHANGED sam_vars
    /\ UNCHANGED args_vars
    /\ UNCHANGED populate_vars
    /\ UNCHANGED transcript_vars
    /\ UNCHANGED filter_vars
    /\ UNCHANGED gtf_vars
    /\ UNCHANGED batch_vars
    /\ UNCHANGED counter_vars

\* one call of create_edge on the shared dictionary
CreateEdge ==
    /\ Len(vertex_calls) + Len(edge_calls) < MaxCreateCalls
    /\ \E vertex_1 \in CreateVertexIDs, vertex_2 \in CreateVertexIDs, edge_type \in EdgeTypes :
       \E r \in {create_edge(vertex_1, vertex_2, edge_type, init_edges)} :
        /\ init_edges' = r.edges
        /\ edge_calls' = Append(edge_calls,
              [v1 |-> vertex_1, v2 |-> vertex_2, edge_type |-> edge_type,
               id |-> r.id, before |-> init_edges, after |-> r.edges])
    /\ UNCHANGED <<init_vertices, vertex_calls>>
    /\ UNCHANGED run_vars
    /\ UNCHANGED splice_vars
    /\ UNCHANGED sam_vars
    /\ UNCHANGED args_vars
    /\ UNCHANGED populate_vars
    /\ UNCHANGED transcript_vars
    /\ UNCHANGED filter_vars
    /\ UNCHANGED gtf_vars
    /\ UNCHANGED batch_vars
    /\ UNCHANGED counter_vars

NextCreate == CreateVertex \/ CreateEdge

SpecCreate == InitCreate /\ [][NextCreate]_vars

\* ------------------------------------------------------------------------
\* transcript.py: Transcript.add_exon and add_exon_from_gtf over a sequence
\* of calls on one Transcript
\* ------------------------------------------------------------------------
MaxExonCalls == 3

\* the coordinates the calls are made with
ExonPositions == 1..3

\* int(): the number a GTF field of digits stands for
int(field) == CHOOSE n \in 0..9 : ToString(n) = field

\* the fields of a GTF exon entry add_exon_from_gtf reads: start, end and,
\* in the description, the transcript_id ("" when the description has none)
GtfExonEntries == [start : {ToString(n) : n \in ExonPositions}, end : {ToString(n) : n \in ExonPositions}, transcript_id : {"t1", "t2", ""}]

\* add_exon with the test start >= end: a one-base exon is refused
add_exon_no_one_base(self, exon_start, exon_end) ==
    IF exon_start >= exon_end
    THEN [raised |-> "ValueError", self |-> self]
    ELSE [raised |-> "None", self |-> [self EXCEPT !.exons = self.exons \o <<exon_start, exon_end>>]]

\* Transcript.add_exon: ValueError when the start lies after the end, else
\* self.exons += [exon_start, exon_end]
add_exon(self, exon_start, exon_end) ==
    IF exon_start > exon_end
    THEN [raised |-> "ValueError", self |-> self]
    ELSE [raised |-> "None", self |-> [self EXCEPT !.exons = self.exons \o <<exon_start, exon_end>>]]

\* Transcript.add_exon_from_gtf: ValueError when the entry names no
\* transcript or another transcript, else add_exon of its two coordinates
add_exon_from_gtf(self, exon_info) ==
    LET start == int(exon_info.start)
        end == int(exon_info.end)
    IN  IF exon_info.transcript_id = "" THEN [raised |-> "ValueError", self |-> self]
        ELSE IF exon_info.transcript_id # self.identifier THEN [raised |-> "ValueError", self |-> self]
        ELSE add_exon(self, start, end)

InitTranscript ==
    /\ \E database \in {populate_db([genes |-> <<>>, transcripts |-> <<>>])} :
       \E a \in {read_annotation(database)} :
        /\ db = database
        /\ gene_tree = a.gene_tree
        /\ transcripts = a.transcripts
        /\ exon_tree = a.exon_tree
        /\ intron_tree = a.intron_tree
        /\ vertices = a.vertices
        /\ counter = a.counter
        /\ novel_ids = [c \in CounterKeys |-> EmptyDict]
        /\ abundance = EmptyDict
        /\ all_sam_transcripts = <<>>
        /\ dataset = ""
        /\ n_datasets = 0
        /\ pc = "identify"
        /\ conn = "none"
        /\ cursor = database
        /\ failures = 0
    /\ location_dict = [c \in Chromosomes |-> EmptyDict]
    /\ vertex_counter = 0
    /\ positions = <<>>
    /\ vertex_IDs = <<>>
    /\ novelty = <<>>
    /\ NoSamFile
    /\ NoArgs
    /\ NoPopulate
    /\ NoCreate
    /\ \E strand \in Strands : currTranscript = NewTranscript("t1", "None", "chr1", 1, 3, strand, "gA")
    /\ add_exon_calls = <<>>
    /\ NoFilter
    /\ NoGtf
    /\ NoBatch
    /\ NoCounters

\* one call of add_exon
AddExon ==
    /\ Len(add_exon_calls) < MaxExonCalls
    /\ \E exon_start \in ExonPositions, exon_end \in ExonPositions :
       \E r \in {add_exon(currTranscript, exon_start, exon_end)} :
        /\ currTranscript' = r.self
        /\ add_exon_calls' = Append(add_exon_calls,
              [method |-> "add_exon", exon_start |-> exon_start, exon_end |-> exon_end, transcript_id |-> currTranscript.identifier,
               raised |-> r.raised, before |-> currTranscript, after |-> r.self])
    /\ UNCHANGED run_vars
    /\ UNCHANGED splice_vars
    /\ UNCHANGED sam_vars
    /\ UNCHANGED args_vars
    /\ UNCHANGED populate_vars
    /\ UNCHANGED create_vars
    /\ UNCHANGED filter_vars
    /\ UNCHANGED gtf_vars
    /\ UNCHANGED batch_vars
    /\ UNCHANGED counter_vars

\* one call of add_exon_from_gtf
AddExonFromGtf ==
    /\ Len(add_exon_calls) < MaxExonCalls
    /\ \E exon_info \in GtfExonEntries :
       \E r \in {add_exon_from_gtf(currTranscript, exon_info)} :
        /\ currTranscript' = r.self
        /\ add_exon_calls' = Append(add_exon_calls,
              [method |-> "add_exon_from_gtf", exon_start |-> int(exon_info.start), exon_end |-> int(exon_info.end), transcript_id |-> exon_info.transcript_id,
               raised |-> r.raised, before |-> currTranscript, after |-> r.self])
    /\ UNCHANGED run_vars
    /\ UNCHANGED splice_vars
    /\ UNCHANGED sam_vars
    /\ UNCHANGED args_vars
    /\ UNCHANGED populate_vars
    /\ UNCHANGED create_vars
    /\ UNCHANGED filter_vars
    /\ UNCHANGED gtf_vars
    /\ UNCHANGED batch_vars
    /\ UNCHANGED counter_vars

NextTranscript == AddExon \/ AddExonFromGtf

SpecTranscript == InitTranscript /\ [][NextTranscript]_vars

\* ------------------------------------------------------------------------
\* filter_by_length
\* ------------------------------------------------------------------------
MaxMinLength == 3

\* main: filter_by_length is called when min_length > 0
MinLengths == 1..MaxMinLength

\* the gene and transcript identifiers of the GTF file; a transcript entry
\* without gene_id has the gene "None", which is no key of the genes dictionary
FilterGeneIDs == {"gA", "gB"}
FilterTranscriptIDs == {"t1", "t2"}

\* exon lists of lengths 1, 2 and 4
FilterExonLists == { << <<3, 3>> >>, << <<1, 2>> >>, << <<1, 2>>, <<4, 5>> >> }

\* read_gtf_file: the genes dictionary, by native gene id
FilterGenes == UNION {[ids -> {"gene"}] : ids \in SUBSET FilterGeneIDs}

\* read_gtf_file: the transcripts dictionary, by native transcript id
FilterTranscripts ==
    UNION {[ids -> [gene_id : FilterGeneIDs \cup {"None"}, exons : FilterExonLists]] : ids \in SUBSET FilterTranscriptIDs}

\* filter_by_length with the test length > min_length
long_enough_strict(length, minimum) == length > minimum

\* filter_by_length: the test of a transcript, length >= min_length
long_enough(length, minimum) == length >= minimum

\* filter_by_length: two new dictionaries, the transcripts that are long
\* enough under their ids and, for each of them whose gene is a key of
\* genes, that gene under its id; the loop only writes to the new
\* dictionaries, so its order does not show in the result
filter_by_length(genes, transcripts_in, minimum) ==
    LET kept == {transcript_id \in DOMAIN transcripts_in :
                    long_enough(get_length(transcripts_in[transcript_id].exons, 1), minimum)}
        kept_genes == {gene_id \in DOMAIN genes : \E transcript_id \in kept : transcripts_in[transcript_id].gene_id = gene_id}
    IN  [filtered_genes |-> [gene_id \in kept_genes |-> genes[gene_id]],
         filtered_transcripts |-> [transcript_id \in kept |-> transcripts_in[transcript_id]]]

InitFilter ==
    /\ \E database \in {populate_db([genes |-> <<>>, transcripts |-> <<>>])} :
       \E a \in {read_annotation(database)} :
        /\ db = database
        /\ gene_tree = a.gene_tree
        /\ transcripts = a.transcripts
        /\ exon_tree = a.exon_tree
        /\ intron_tree = a.intron_tree
        /\ vertices = a.vertices
        /\ counter = a.counter
        /\ novel_ids = [c \in CounterKeys |-> EmptyDict]
        /\ abundance = EmptyDict
        /\ all_sam_transcripts = <<>>
        /\ dataset = ""
        /\ n_datasets = 0
        /\ pc = "identify"
        /\ conn = "none"
        /\ cursor = database
        /\ failures = 0
    /\ location_dict = [c \in Chromosomes |-> EmptyDict]
    /\ vertex_counter = 0
    /\ positions = <<>>
    /\ vertex_IDs = <<>>
    /\ novelty = <<>>
    /\ NoSamFile
    /\ NoArgs
    /\ NoPopulate
    /\ NoCreate
    /\ NoTranscript
    /\ gtf_genes \in FilterGenes
    /\ gtf_transcripts \in FilterTranscripts
    /\ min_length \in MinLengths
    /\ filtered_genes = NoEntries
    /\ filtered_transcripts = NoEntries
    /\ filter_pc = "called"
    /\ NoGtf
    /\ NoBatch
    /\ NoCounters

\* the call of filter_by_length
FilterByLength ==
    /\ filter_pc = "called"
    /\ \E r \in {filter_by_length(gtf_genes, gtf_transcripts, min_length)} :
        /\ filtered_genes' = r.filtered_genes
        /\ filtered_transcripts' = r.filtered_transcripts
    /\ filter_pc' = "returned"
    /\ UNCHANGED <<gtf_genes, gtf_transcripts, min_length>>
    /\ UNCHANGED run_vars
    /\ UNCHANGED splice_vars
    /\ UNCHANGED sam_vars
    /\ UNCHANGED args_vars
    /\ UNCHANGED populate_vars
    /\ UNCHANGED create_vars
    /\ UNCHANGED transcript_vars
    /\ UNCHANGED gtf_vars
    /\ UNCHANGED batch_vars
    /\ UNCHANGED counter_vars

NextFilter == FilterByLength

SpecFilter == InitFilter /\ [][NextFilter]_vars

\* ---------------------------------------------------------------------
\* read_gtf_file: the gene, transcript and exon entries of a GTF file

MaxGtfLines == 3

GtfGeneIDs == {"g1"}

GtfTranscriptIDs == {"t1", "t2"}

GtfExonSpans == {<<1, 2>>, <<4, 5>>}

\* the entries of a GTF file, by the fields read_gtf_file uses
GtfEntries ==
    {[type |-> "gene", gene_id |-> g, transcript_id |-> "None", span |-> <<0, 0>>] : g \in GtfGeneIDs}
    \cup {[type |-> "transcript", gene_id |-> g, transcript_id |-> t, span |-> <<0, 0>>] : g \in GtfGeneIDs, t \in GtfTranscriptIDs}
    \cup {[type |-> "exon", gene_id |-> g, transcript_id |-> t, span |-> e] : g \in GtfGeneIDs, t \in GtfTranscriptIDs, e \in GtfExonSpans}

GtfLines == UNION {[1..n -> GtfEntries] : n \in 0..MaxGtfLines}

\* Edge.create_edge_from_gtf: the exon of an entry, identified by its
\* location, with the transcript of the entry as its one transcript id
create_edge_from_gtf(entry) ==
    [identifier |-> ToString(entry.span[1]) \o "_" \o ToString(entry.span[2]),
     start |-> entry.span[1], end |-> entry.span[2],
     gene_id |-> entry.gene_id, transcript_ids |-> {entry.transcript_id}]

\* read_gtf_file, the exons dictionary after an exon entry: the new exon is
\* assigned to its key, then the key is looked up, so the key is always
\* found and the exon found is the new one; its own transcript id is
\* added to its set
store_exon(exons, exon) ==
    LET location_exon_id == exon.identifier
        assigned == Put(exons, location_exon_id, exon)
        transcript_id == CHOOSE t \in exon.transcript_ids : TRUE
    IN  IF location_exon_id \notin DOMAIN assigned
        THEN Put(assigned, location_exon_id, exon)
        ELSE Put(assigned, location_exon_id,
                 [assigned[location_exon_id] EXCEPT !.transcript_ids = @ \cup {transcript_id}])

\* read_gtf_file, the body of the loop for one entry.
\* Returns [genes, transcripts, exons]
read_gtf_entry(genes, transcripts_in, exons, entry) ==
    IF entry.type = "gene"
    THEN [genes |-> Put(genes, entry.gene_id, [identifier |-> entry.gene_id, transcripts |-> {}]),
          transcripts |-> transcripts_in, exons |-> exons]
    ELSE IF entry.type = "transcript"
    THEN [genes |-> IF entry.gene_id \in DOMAIN genes
                    THEN Put(genes, entry.gene_id, [genes[entry.gene_id] EXCEPT !.transcripts = @ \cup {entry.transcript_id}])
                    ELSE genes,
          transcripts |-> Put(transcripts_in, entry.transcript_id, [gene_id |-> entry.gene_id, exons |-> <<>>]),
          exons |-> exons]
    ELSE LET exon == create_edge_from_gtf(entry)
         IN  [genes |-> genes,
              transcripts |-> IF entry.transcript_id \in DOMAIN transcripts_in
                              THEN Put(transcripts_in, entry.transcript_id,
                                       [transcripts_in[entry.transcript_id] EXCEPT !.exons = Append(@, <<exon.start, exon.end>>)])
                              ELSE transcripts_in,
              exons |-> store_exon(exons, exon)]

InitGtf ==
    /\ \E database \in {populate_db([genes |-> <<>>, transcripts |-> <<>>])} :
       \E a \in {read_annotation(database)} :
        /\ db = database
        /\ gene_tree = a.gene_tree
        /\ transcripts = a.transcripts
        /\ exon_tree = a.exon_tree
        /\ intron_tree = a.intron_tree
        /\ vertices = a.vertices
        /\ counter = a.counter
        /\ novel_ids = [c \in CounterKeys |-> EmptyDict]
        /\ abundance = EmptyDict
        /\ all_sam_transcripts = <<>>
        /\ dataset = ""
        /\ n_datasets = 0
        /\ pc = "identify"
        /\ conn = "none"
        /\ cursor = database
        /\ failures = 0
    /\ location_dict = [c \in Chromosomes |-> EmptyDict]
    /\ vertex_counter = 0
    /\ positions = <<>>
    /\ vertex_IDs = <<>>
    /\ novelty = <<>>
    /\ NoSamFile
    /\ NoArgs
    /\ NoPopulate
    /\ NoCreate
    /\ NoTranscript
    /\ NoFilter
    /\ gtf_file \in GtfLines
    /\ gtf_line = 0
    /\ gtf_exons = NoEntries
    /\ NoBatch
    /\ NoCounters

\* read_gtf_file, one pass of the loop: the next entry of the file
ReadGtfEntry ==
    /\ gtf_line < Len(gtf_file)
    /\ \E r \in {read_gtf_entry(gtf_genes, gtf_transcripts, gtf_exons, gtf_file[gtf_line + 1])} :
        /\ gtf_genes' = r.genes
        /\ gtf_transcripts' = r.transcripts
        /\ gtf_exons' = r.exons
    /\ gtf_line' = gtf_line + 1
    /\ UNCHANGED <<gtf_file, min_length, filtered_genes, filtered_transcripts, filter_pc>>
    /\ UNCHANGED run_vars
    /\ UNCHANGED splice_vars
    /\ UNCHANGED sam_vars
    /\ UNCHANGED args_vars
    /\ UNCHANGED populate_vars
    /\ UNCHANGED create_vars
    /\ UNCHANGED transcript_vars
    /\ UNCHANGED batch_vars
    /\ UNCHANGED counter_vars

NextGtf == ReadGtfEntry

SpecGtf == InitGtf /\ [][NextGtf]_vars

\* ---------------------------------------------------------------------
\* the while loop of batch_add_genes, batch_add_transcripts,
\* batch_add_edges, batch_add_vertices_and_locations, batch_add_observed
\* and batch_add_abundance, one pass at a time

MaxStaged == 4

MaxBatchSize == 3

\* the rows a staged list may hold; two equal rows may be staged
StagedRows == 1..2

StagedLists == UNION {[1..n -> StagedRows] : n \in 0..MaxStaged}

InitBatch ==
    /\ \E database \in {populate_db([genes |-> <<>>, transcripts |-> <<>>])} :
       \E a \in {read_annotation(database)} :
        /\ db = database
        /\ gene_tree = a.gene_tree
        /\ transcripts = a.transcripts
        /\ exon_tree = a.exon_tree
        /\ intron_tree = a.intron_tree
        /\ vertices = a.vertices
        /\ counter = a.counter
        /\ novel_ids = [c \in CounterKeys |-> EmptyDict]
        /\ abundance = EmptyDict
        /\ all_sam_transcripts = <<>>
        /\ dataset = ""
        /\ n_datasets = 0
        /\ pc = "identify"
        /\ conn = "none"
        /\ cursor = database
        /\ failures = 0
    /\ location_dict = [c \in Chromosomes |-> EmptyDict]
    /\ vertex_counter = 0
    /\ positions = <<>>
    /\ vertex_IDs = <<>>
    /\ novelty = <<>>
    /\ NoSamFile
    /\ NoArgs
    /\ NoPopulate
    /\ NoCreate
    /\ NoTranscript
    /\ NoFilter
    /\ NoGtf
    /\ loop_entries \in StagedLists
    /\ loop_batch_size \in 1..MaxBatchSize
    /\ loop_index = 0
    /\ loop_calls = <<>>
    /\ loop_pc = "loop"
    /\ NoCounters

\* one pass of the loop: the batch is sliced, index moves on by batch_size
\* and the batch goes to executemany; a failing insert is printed and the
\* loop goes on
BatchIteration ==
    /\ loop_pc = "loop"
    /\ loop_index < Len(loop_entries)
    /\ loop_calls' = Append(loop_calls, batch_slice(loop_entries, loop_index, loop_batch_size))
    /\ loop_index' = loop_index + loop_batch_size
    /\ UNCHANGED <<loop_entries, loop_batch_size, loop_pc>>
    /\ UNCHANGED run_vars
    /\ UNCHANGED splice_vars
    /\ UNCHANGED sam_vars
    /\ UNCHANGED args_vars
    /\ UNCHANGED populate_vars
    /\ UNCHANGED create_vars
    /\ UNCHANGED transcript_vars
    /\ UNCHANGED filter_vars
    /\ UNCHANGED gtf_vars
    /\ UNCHANGED counter_vars

\* the loop condition fails: the function returns
BatchReturn ==
    /\ loop_pc = "loop"
    /\ ~(loop_index < Len(loop_entries))
    /\ loop_pc' = "returned"
    /\ UNCHANGED <<loop_entries, loop_batch_size, loop_index, loop_calls>>
    /\ UNCHANGED run_vars
    /\ UNCHANGED splice_vars
    /\ UNCHANGED sam_vars
    /\ UNCHANGED args_vars
    /\ UNCHANGED populate_vars
    /\ UNCHANGED create_vars
    /\ UNCHANGED transcript_vars
    /\ UNCHANGED filter_vars
    /\ UNCHANGED gtf_vars
    /\ UNCHANGED counter_vars

NextBatch == BatchIteration \/ BatchReturn

SpecBatch == InitBatch /\ [][NextBatch]_vars

\* ---------------------------------------------------------------------
\* the counters table from add_counter_table to get_counters and
\* update_counter

MaxCount == 1

\* add_counter_table: the rows inserted into the new counters table, each
\* with count 0
add_counter_table ==
    [category \in {"genes", "transcripts", "vertex", "edge", "genome_build", "dataset",
                   "observed_transcript_start", "observed_transcript_end"} |-> 0]

\* get_counters: a SELECT for a category without a row fetches None, and
\* None[0] raises TypeError
get_counters_raises(counters) ==
    \E key \in CounterKeys : CategoryOf(key) \notin DOMAIN counters

\* the counter dictionaries update_counter may be given
CounterDicts == [CounterKeys -> 0..MaxCount]

InitCounters ==
    /\ \E database \in {populate_db([genes |-> <<>>, transcripts |-> <<>>])} :
       \E a \in {read_annotation(database)} :
        /\ db = database
        /\ gene_tree = a.gene_tree
        /\ transcripts = a.transcripts
        /\ exon_tree = a.exon_tree
        /\ intron_tree = a.intron_tree
        /\ vertices = a.vertices
        /\ counter = a.counter
        /\ novel_ids = [c \in CounterKeys |-> EmptyDict]
        /\ abundance = EmptyDict
        /\ all_sam_transcripts = <<>>
        /\ dataset = ""
        /\ n_datasets = 0
        /\ pc = "identify"
        /\ conn = "none"
        /\ cursor = database
        /\ failures = 0
    /\ location_dict = [c \in Chromosomes |-> EmptyDict]
    /\ vertex_counter = 0
    /\ positions = <<>>
    /\ vertex_IDs = <<>>
    /\ novelty = <<>>
    /\ NoSamFile
    /\ NoArgs
    /\ NoPopulate
    /\ NoCreate
    /\ NoTranscript
    /\ NoFilter
    /\ NoGtf
    /\ NoBatch
    /\ counters_table = add_counter_table
    /\ update_arg = NoEntries
    /\ fetched_counter = NoEntries
    /\ counters_pc = "created"

\* get_counters on the counters table: the dictionary of the six
\* categories, or TypeError at the first category without a row
GetCounters ==
    /\ counters_pc \in {"created", "updated"}
    /\ IF get_counters_raises(counters_table)
       THEN /\ counters_pc' = "TypeError"
            /\ UNCHANGED fetched_counter
       ELSE /\ fetched_counter' = get_counters([counters |-> counters_table])
            /\ counters_pc' = "fetched"
    /\ UNCHANGED <<counters_table, update_arg>>
    /\ UNCHANGED run_vars
    /\ UNCHANGED splice_vars
    /\ UNCHANGED sam_vars
    /\ UNCHANGED args_vars
    /\ UNCHANGED populate_vars
    /\ UNCHANGED create_vars
    /\ UNCHANGED transcript_vars
    /\ UNCHANGED filter_vars
    /\ UNCHANGED gtf_vars
    /\ UNCHANGED batch_vars

\* update_counter(counter): one UPDATE per category, changing the rows
\* that exist
UpdateCounter ==
    /\ counters_pc \in {"created", "updated"}
    /\ \E given \in CounterDicts :
        /\ update_arg' = given
        /\ counters_table' = counters_after_update(counters_table, given)
    /\ counters_pc' = "updated"
    /\ UNCHANGED fetched_counter
    /\ UNCHANGED run_vars
    /\ UNCHANGED splice_vars
    /\ UNCHANGED sam_vars
    /\ UNCHANGED args_vars
    /\ UNCHANGED populate_vars
    /\ UNCHANGED create_vars
    /\ UNCHANGED transcript_vars
    /\ UNCHANGED filter_vars
    /\ UNCHANGED gtf_vars
    /\ UNCHANGED batch_vars

NextCounters == GetCounters \/ UpdateCounter

SpecCounters == InitCounters /\ [][NextCounters]_vars

\* ------------------------------------------------------------------------
\* Properties
\* ------------------------------------------------------------------------
\* C1: after update_database has committed, every row of the counters table
\* holds the row count of the table of its category, and the six categories
\* of the in-memory counter hold the in-memory value
C1_CountersMatchTablesAfterCommit ==
    pc = "done" =>
        /\ \A category \in DOMAIN db.counters : db.counters[category] = Cardinality(db.tables[category])
        /\ \A key \in CounterKeys : db.counters[CategoryOf(key)] = counter[key]

\* C1, its case: a commit of a run that minted a transcript and in which one
\* of the batched inserts failed
C1_Witness == pc = "done" /\ failures = 1 /\ DOMAIN novel_ids["transcripts"] # {} /\ db.tables["observed"] # {}

\* C2: a check that finds a counter that differs from its table's row count
\* raises, and no step but the one that completes the commit changes the
\* database: after the raise it is the database the flush started from
C2_FailedCheckLeavesDatabase ==
    [][/\ (pc = "check" /\ \E category \in DOMAIN cursor.counters : cursor.counters[category] # Cardinality(cursor.tables[category])) => (pc' = "raised" /\ conn' = conn)
       /\ pc' # "done" => db' = db
       /\ pc = "raised" => pc' = "raised"]_vars

\* C2, its case: the check raised after the transaction had written rows and
\* counters the database does not hold
C2_Witness == pc = "raised" /\ conn = "open" /\ cursor.tables["observed"] # {} /\ db.tables["observed"] = {} /\ cursor.counters # db.counters

\* the Edge object of an edge id, whichever tree holds it
EdgeOf(id) == IF id \in DOMAIN exon_tree THEN exon_tree[id] ELSE intron_tree[id]

\* the key of an edge minted in the run: start, end, type and gene
MintedEdgeKey(id) == <<EdgeOf(id).start, EdgeOf(id).end, novel_ids["edges"][id].edge_type, EdgeOf(id).gene_id>>

\* the keys of the edges the database held before the run
KnownEdgeKeys ==
    {<<EdgeOf(id).start, EdgeOf(id).end, type, EdgeOf(id).gene_id>> :
        <<id, type>> \in {<<e, "exon">> : e \in {k \in DOMAIN exon_tree : k <= db.counters["edge"]}}
                        \cup {<<e, "intron">> : e \in {k \in DOMAIN intron_tree : k <= db.counters["edge"]}}}

\* C3: no two edge ids minted in the run have the same start, end, type and
\* gene, when no edge of the database has them
C3_MintedEdgesUniquePerKey ==
    \A e1 \in DOMAIN novel_ids["edges"] : \A e2 \in DOMAIN novel_ids["edges"] :
        (MintedEdgeKey(e1) = MintedEdgeKey(e2) /\ MintedEdgeKey(e1) \notin KnownEdgeKeys) => e1 = e2

\* the edge ids on the path of a transcript
EdgesOf(t) == Range(transcripts[t].exons) \cup Range(transcripts[t].introns)

\* C4: every edge on the path of a transcript minted in the run is an edge
\* of the transcript's gene, and transcripts of different genes have no edge
\* id in common
C4_EdgesGeneScoped ==
    /\ \A t \in DOMAIN novel_ids["transcripts"] : \A e \in EdgesOf(t) : EdgeOf(e).gene_id = transcripts[t].gene_id
    /\ \A t \in DOMAIN transcripts : \A u \in DOMAIN transcripts :
        transcripts[t].gene_id # transcripts[u].gene_id => EdgesOf(t) \cap EdgesOf(u) = {}

\* C4, its case: a minted transcript holds a minted exon at the coordinates
\* of a known exon of another gene
C4_Witness ==
    \E t \in DOMAIN novel_ids["transcripts"] : \E e \in Range(transcripts[t].exons) \cap DOMAIN novel_ids["edges"] :
        \E k \in DOMAIN exon_tree :
            /\ k <= db.counters["edge"]
            /\ exon_tree[k].gene_id # exon_tree[e].gene_id
            /\ exon_tree[k].chromosome = exon_tree[e].chromosome /\ exon_tree[k].strand = exon_tree[e].strand
            /\ exon_tree[k].start = exon_tree[e].start /\ exon_tree[k].end = exon_tree[e].end

\* C5: the reads processed so far have one observed record each, read i
\* under the i-th id after the observed counter of the database, and the
\* observed counter is the id of the last
C5_OneObservedRecordPerRead ==
    LET n == Len(all_sam_transcripts)
        c0 == db.counters["observed"]
    IN  /\ counter["observed"] = c0 + n
        /\ DOMAIN novel_ids["observed"] = (c0 + 1)..(c0 + n)
        /\ \A i \in 1..n :
            /\ novel_ids["observed"][c0 + i].obs_ID = c0 + i
            /\ novel_ids["observed"][c0 + i].read_name = all_sam_transcripts[i].identifier
            /\ novel_ids["observed"][c0 + i].transcript_ID = all_sam_transcripts[i].transcript_ID

\* C5, its case: two reads on the minus strand, one a full match and one
\* that matched nothing
C5_Witness ==
    /\ Len(all_sam_transcripts) = 2
    /\ \A i \in 1..2 : all_sam_transcripts[i].strand = "-"
    /\ {all_sam_transcripts[i].match_type : i \in 1..2} = {"full", "none"}
    /\ db.tables["transcripts"] # {}

\* the reads of a dataset assigned a transcript
ReadsOf(t, d) == {i \in 1..Len(all_sam_transcripts) : all_sam_transcripts[i].transcript_ID = t /\ all_sam_transcripts[i].dataset = d}

\* the entries of the abundance mapping
AbundanceEntries == {e \in (DOMAIN abundance) \X DatasetNames : e[2] \in DOMAIN abundance[e[1]]}

RECURSIVE AbundanceSum(_)
AbundanceSum(entries) ==
    IF entries = {} THEN 0
    ELSE LET e == CHOOSE x \in entries : TRUE IN abundance[e[1]][e[2]] + AbundanceSum(entries \ {e})

\* C6: the abundance mapping holds, for every transcript and dataset, the
\* number of reads of the dataset assigned the transcript, and an entry for
\* every read; its sum is the number of reads; the abundance table is empty
\* in the transaction until batch_add_abundance and in the database until
\* the commit
C6_AbundanceCountsReads ==
    /\ \A e \in AbundanceEntries : abundance[e[1]][e[2]] = Cardinality(ReadsOf(e[1], e[2]))
    /\ \A i \in 1..Len(all_sam_transcripts) : <<all_sam_transcripts[i].transcript_ID, all_sam_transcripts[i].dataset>> \in AbundanceEntries
    /\ AbundanceSum(AbundanceEntries) = Len(all_sam_transcripts)
    /\ pc \notin {"check", "commit", "raised", "done"} => cursor.tables["abundance"] = {}
    /\ pc # "done" => db.tables["abundance"] = {}

\* C6, its case: two reads of one dataset counted under one transcript, and
\* the flush committed
C6_Witness ==
    /\ pc = "done"
    /\ db.tables["abundance"] # {}
    /\ \E e \in AbundanceEntries : abundance[e[1]][e[2]] = 2

\* the reads processed so far are reads of one dataset with the same single
\* exon, and the database knows no gene whose span meets the exon and no
\* vertex in it
SameSingleExonOnEmptyRegion ==
    LET first == all_sam_transcripts[1]
    IN  /\ Len(all_sam_transcripts) >= 1
        /\ \A i \in 1..Len(all_sam_transcripts) :
            /\ all_sam_transcripts[i].n_exons = 1
            /\ all_sam_transcripts[i].exons = first.exons
            /\ all_sam_transcripts[i].chromosome = first.chromosome
            /\ all_sam_transcripts[i].strand = first.strand
            /\ all_sam_transcripts[i].dataset = first.dataset
        /\ \A g \in DOMAIN read_genes(db) :
            \/ read_genes(db)[g].chromosome # first.chromosome
            \/ read_genes(db)[g].end < first.start
            \/ read_genes(db)[g].start > first.end

\* C7: of N reads with the same single exon on an empty region, the first
\* matched nothing and minted one gene, one transcript and one exon; every
\* later one is a full match of that transcript; nothing else was minted
\* and the transcript's abundance in the dataset is N
C7_IdenticalSingleExonReads ==
    SameSingleExonOnEmptyRegion =>
        LET first == all_sam_transcripts[1]
            t == first.transcript_ID
        IN  /\ first.match_type = "none" /\ first.novel = "Novel"
            /\ DOMAIN novel_ids["genes"] = {first.gene_ID}
            /\ DOMAIN novel_ids["transcripts"] = {t}
            /\ t \in DOMAIN transcripts
            /\ Cardinality(DOMAIN novel_ids["edges"]) = 1
            /\ \A e \in DOMAIN novel_ids["edges"] : novel_ids["edges"][e].edge_type = "exon" /\ transcripts[t].exons = <<e>>
            /\ Cardinality(DOMAIN novel_ids["vertices"]) = 2
            /\ \A i \in 2..Len(all_sam_transcripts) :
                /\ all_sam_transcripts[i].match_type = "full"
                /\ all_sam_transcripts[i].novel = "Seen_previously"
                /\ all_sam_transcripts[i].transcript_ID = t
                /\ all_sam_transcripts[i].gene_ID = first.gene_ID
            /\ abundance[t][first.dataset] = Len(all_sam_transcripts)

\* C7, its case: two such reads
C7_Witness == SameSingleExonOnEmptyRegion /\ Len(all_sam_transcripts) = 2

\* a step that processed a read
ReadStep == Len(all_sam_transcripts') = Len(all_sam_transcripts) + 1

\* the read a step processed
ReadOfStep == all_sam_transcripts'[Len(all_sam_transcripts')]

\* a full match leaves the structures and the staging tables of genes,
\* transcripts, edges and vertices as they were
FullMatchMintsNothing ==
    /\ gene_tree' = gene_tree /\ transcripts' = transcripts
    /\ exon_tree' = exon_tree /\ intron_tree' = intron_tree /\ vertices' = vertices
    /\ \A k \in {"genes", "transcripts", "edges", "vertices"} : novel_ids'[k] = novel_ids[k]

\* C8 as stated: a read that is a full match mints nothing and leaves every
\* counter as it was
C8_FullMatchLeavesCounters ==
    [][(ReadStep /\ ReadOfStep.match_type = "full") => (FullMatchMintsNothing /\ counter' = counter)]_vars

\* C8: a read that is a full match mints nothing and leaves the counters of
\* genes, transcripts, edges, vertices and datasets as they were; the
\* observed counter is one more, for the read's observed record
C8_FullMatchLeavesEntityCounters ==
    [][(ReadStep /\ ReadOfStep.match_type = "full") =>
            /\ FullMatchMintsNothing
            /\ \A key \in CounterKeys \ {"observed"} : counter'[key] = counter[key]
            /\ counter'["observed"] = counter["observed"] + 1]_vars

\* C8, its case: a read of two exons that is a full match of a transcript
\* of the annotation, in a run that minted no transcript
C8_Witness ==
    /\ novel_ids["transcripts"] = EmptyDict
    /\ \E i \in 1..Len(all_sam_transcripts) :
        all_sam_transcripts[i].match_type = "full" /\ all_sam_transcripts[i].n_exons = 2

\* the splice positions of a call (all but the first and the last) that the
\* location index does not know, up to the i-th position
UnknownUpTo(pos, i) == {j \in 2..i : pos[j] \notin DOMAIN location_dict["chr1"]}

\* C9: a call of match_splice_vertices returns one id per splice position,
\* in the order of the positions: the id of the index for a known position,
\* and for the j-th unknown position the vertex counter + j, under which the
\* index then holds the position; the counter and the index grow by the
\* number of unknown positions, by one when there is one
C9_SpliceVerticesMatchedOrMinted ==
    [][LET pos == positions'
           unknown == UnknownUpTo(pos, Len(pos) - 1)
       IN  /\ Len(vertex_IDs') = Len(pos) - 2
           /\ Len(novelty') = Len(pos) - 2
           /\ \A i \in 2..(Len(pos) - 1) :
                IF i \in unknown
                THEN /\ vertex_IDs'[i - 1] = vertex_counter + Cardinality(UnknownUpTo(pos, i))
                     /\ novelty'[i - 1] = 1
                     /\ location_dict'["chr1"][pos[i]] = vertex_IDs'[i - 1]
                ELSE /\ vertex_IDs'[i - 1] = location_dict["chr1"][pos[i]]
                     /\ novelty'[i - 1] = 0
           /\ vertex_counter' = vertex_counter + Cardinality(unknown)
           /\ DOMAIN location_dict'["chr1"] = DOMAIN location_dict["chr1"] \cup {pos[j] : j \in unknown}
           /\ \A p \in DOMAIN location_dict["chr1"] : location_dict'["chr1"][p] = location_dict["chr1"][p]
           /\ Cardinality(unknown) = 1 =>
                /\ vertex_counter' = vertex_counter + 1
                /\ Cardinality(DOMAIN location_dict'["chr1"]) = Cardinality(DOMAIN location_dict["chr1"]) + 1]_vars

\* C9, its case: a call on three exons that found three splice positions
\* and minted the vertex of the other
C9_Witness ==
    /\ Len(positions) = 6
    /\ novelty \in {<<1, 0, 0, 0>>, <<0, 0, 1, 0>>}
    /\ vertex_IDs[IF novelty[1] = 1 THEN 1 ELSE 3] = vertex_counter

\* the exon coordinates of a known transcript, in coordinate order
ExonsOf(t) == [i \in 1..Len(transcripts[t].exons) |-> <<exon_tree[transcripts[t].exons[i]].start, exon_tree[transcripts[t].exons[i]].end>>]

\* the known transcripts whose chromosome, strand and exon coordinates are
\* those of a read
IdenticalTo(read) ==
    {t \in DOMAIN transcripts :
        /\ transcripts[t].chromosome = read.chromosome
        /\ transcripts[t].strand = read.strand
        /\ ExonsOf(t) = read.exons}

\* C10 as stated: a read with the coordinates of a known transcript T is a
\* full match, T its best match, with differences (0, 0)
C10_IdenticalQueryMatchesT ==
    [][ReadStep => \A t \in IdenticalTo(ReadOfStep) :
            /\ ReadOfStep.match_type = "full"
            /\ ReadOfStep.best_match = t
            /\ ReadOfStep.diff_5 = 0 /\ ReadOfStep.diff_3 = 0]_vars

\* C10: a read with the coordinates of known transcripts is a full match,
\* its best match the lowest id among those transcripts, with differences
\* (0, 0)
C10_IdenticalQueryMatchesLowest ==
    [][(ReadStep /\ IdenticalTo(ReadOfStep) # {}) =>
            /\ ReadOfStep.match_type = "full"
            /\ ReadOfStep.best_match = SetMin(IdenticalTo(ReadOfStep))
            /\ ReadOfStep.diff_5 = 0 /\ ReadOfStep.diff_3 = 0]_vars

\* C10, its case: a read of two exons with the coordinates of two known
\* transcripts was matched to the lower
C10_Witness ==
    \E i \in 1..Len(all_sam_transcripts) : \E t \in DOMAIN transcripts : \E u \in DOMAIN transcripts :
        /\ t < u /\ u <= db.counters["transcripts"]
        /\ ExonsOf(t) = all_sam_transcripts[i].exons /\ ExonsOf(u) = all_sam_transcripts[i].exons
        /\ transcripts[t].strand = all_sam_transcripts[i].strand /\ transcripts[u].strand = all_sam_transcripts[i].strand
        /\ all_sam_transcripts[i].n_exons = 2
        /\ all_sam_transcripts[i].match_type = "full" /\ all_sam_transcripts[i].best_match = t

\* the read of a step was given a gene minted for it, spanning the read
NovelGeneMinted ==
    /\ ReadOfStep.gene_ID = counter["genes"] + 1
    /\ counter'["genes"] = counter["genes"] + 1
    /\ DOMAIN novel_ids'["genes"] = DOMAIN novel_ids["genes"] \cup {ReadOfStep.gene_ID}
    /\ ReadOfStep.gene_ID \in DOMAIN gene_tree'
    /\ gene_tree'[ReadOfStep.gene_ID].start = ReadOfStep.start
    /\ gene_tree'[ReadOfStep.gene_ID].end = ReadOfStep.end
    /\ gene_tree'[ReadOfStep.gene_ID].strand = ReadOfStep.strand

\* the read of a step was given a known gene and none was minted
KnownGeneAssigned(g) ==
    /\ ReadOfStep.gene_ID = g
    /\ counter'["genes"] = counter["genes"]
    /\ novel_ids'["genes"] = novel_ids["genes"]

C12_MultiExonGeneByPosition ==
    [][(ReadStep /\ ReadOfStep.n_exons > 1 /\ ReadOfStep.match_type # "full") =>
            IF search_for_gene(ReadOfStep, vertices) # None
            THEN KnownGeneAssigned(search_for_gene(ReadOfStep, vertices))
            ELSE NovelGeneMinted]_vars

\* C12, its case: a read of two exons was given another gene than that of
\* its best partial match, and a read of two exons was given a novel gene
C12_Witness ==
    /\ \E i \in 1..Len(all_sam_transcripts) :
        /\ all_sam_transcripts[i].n_exons = 2 /\ all_sam_transcripts[i].match_type = "partial"
        /\ all_sam_transcripts[i].gene_ID # transcripts[all_sam_transcripts[i].best_match].gene_id
    /\ \E i \in 1..Len(all_sam_transcripts) :
        /\ all_sam_transcripts[i].n_exons = 2 /\ all_sam_transcripts[i].match_type = "none"
        /\ all_sam_transcripts[i].gene_ID \in DOMAIN novel_ids["genes"]

\* C13: a read without a full match is given a transcript id minted for it:
\* the transcripts counter + 1, which no known transcript has and which is
\* not its best match; the counter is one more and the read is flagged
\* Novel.  A read is flagged Seen_previously exactly when its match type is
\* full
C13_PartialMatchNeverRenames ==
    [][ReadStep =>
            /\ ReadOfStep.match_type # "full" =>
                /\ ReadOfStep.transcript_ID = counter["transcripts"] + 1
                /\ ReadOfStep.transcript_ID \notin DOMAIN transcripts
                /\ ReadOfStep.transcript_ID # ReadOfStep.best_match
                /\ counter'["transcripts"] = counter["transcripts"] + 1
                /\ DOMAIN novel_ids'["transcripts"] = DOMAIN novel_ids["transcripts"] \cup {ReadOfStep.transcript_ID}
                /\ ReadOfStep.novel = "Novel"
            /\ ReadOfStep.novel = "Seen_previously" <=> ReadOfStep.match_type = "full"
            /\ ReadOfStep.novel \in {"Novel", "Seen_previously"}]_vars

\* C13, its case: a read with a partial match was given a minted id, and a
\* read that is a full match the id of its match
C13_Witness ==
    /\ \E i \in 1..Len(all_sam_transcripts) :
        /\ all_sam_transcripts[i].match_type = "partial" /\ all_sam_transcripts[i].best_match # None
        /\ all_sam_transcripts[i].novel = "Novel"
        /\ all_sam_transcripts[i].transcript_ID \in DOMAIN novel_ids["transcripts"]
    /\ \E i \in 1..Len(all_sam_transcripts) :
        /\ all_sam_transcripts[i].match_type = "full" /\ all_sam_transcripts[i].novel = "Seen_previously"
        /\ all_sam_transcripts[i].transcript_ID = all_sam_transcripts[i].best_match

\* the stages of main from the reads to the end of update_database, in the
\* order of the claim
FlushStages == <<"identify", "genes", "transcripts", "edges", "vertices", "observed", "datasets", "counter", "abundance", "check", "commit", "done">>

\* the tables the writes of a stage go to
TablesWrittenAt(stage) ==
    CASE stage = "genes" -> {"genes", "gene_annotations"}
      [] stage = "transcripts" -> {"transcripts", "transcript_annotations"}
      [] stage = "edges" -> {"edge", "exon_annotations"}
      [] stage = "vertices" -> {"vertex", "location"}
      [] stage = "observed" -> {"observed"}
      [] stage = "datasets" -> {"dataset"}
      [] stage = "abundance" -> {"abundance"}
      [] OTHER -> {}

\* C14: update_database goes through its stages in the order genes,
\* transcripts, edges, vertices/locations, observations, datasets, counters,
\* abundance, check, commit; the step of a stage writes the tables of that
\* stage only, the counters are written at their stage only, the commit
\* follows a check that passed and nothing but the commit changes the
\* database
C14_WritesInOrder ==
    [][/\ pc' # pc => \E i \in 1..(Len(FlushStages) - 1) :
            /\ pc = FlushStages[i]
            /\ pc' = FlushStages[i + 1] \/ (pc = "check" /\ pc' = "raised")
       /\ \A t \in TableNames : cursor'.tables[t] # cursor.tables[t] => t \in TablesWrittenAt(pc)
       /\ cursor'.counters # cursor.counters => pc = "counter"
       /\ (pc' = "commit" /\ pc # "commit") => (pc = "check" /\ integrity_ok(cursor))
       /\ db' # db => (pc = "commit" /\ pc' = "done")]_vars

\* C14, its case: a flush that wrote rows of every category, and the
\* counters, was committed
C14_Witness ==
    /\ pc = "done"
    /\ \A t \in {"genes", "transcripts", "edge", "vertex", "location", "observed", "dataset", "abundance", "gene_annotations", "transcript_annotations", "exon_annotations"} :
        db.tables[t] # {}
    /\ \A k \in CounterKeys : novel_ids[k] # EmptyDict /\ db.counters[CategoryOf(k)] = counter[k]

\* every executemany of a flush of the staged rows, in order
FlushCalls ==
    batch_add_genes_calls(novel_ids, BatchSize) \o batch_add_transcripts_calls(novel_ids, BatchSize)
    \o batch_add_edges_calls(novel_ids, BatchSize) \o batch_add_vertices_and_locations_calls(novel_ids, GenomeBuild, BatchSize)
    \o batch_add_observed_calls(novel_ids, BatchSize) \o add_datasets_calls(novel_ids)
    \o batch_add_abundance_calls(abundance, all_sam_transcripts, BatchSize)

\* C15: the database holds all the rows of the flush, of every table, once
\* update_database has committed, and none of them before or without the
\* commit
C15_FlushAllOrNothing ==
    \A calls \in {FlushCalls} : \A j \in 1..Len(calls) :
        IF pc = "done"
        THEN Range(calls[j].rows) \subseteq db.tables[calls[j].table]
        ELSE Range(calls[j].rows) \cap db.tables[calls[j].table] = {}

\* C16: update_database is left, by the commit or by the raise of the
\* integrity check, with its connection closed, and the database changes
\* only by the step that completes the commit
C16_ConnectionReleasedOnExit ==
    [][/\ pc' \in {"done", "raised"} => conn' = "closed"
       /\ db' # db => pc' = "done"]_vars

\* a line on which the call stops with an exception: a uniquely mapped
\* line that is truncated, or a long enough one without the MD field
SamLineAborts(line) ==
    /\ ~line.header
    /\ line.flag \in {"0", "16"}
    /\ line.columns = "truncated" \/ (line.long /\ ~line.md)

\* a line whose read belongs to the returned list
SamLineWellFormed(line) ==
    /\ ~line.header
    /\ line.flag \in {"0", "16"}
    /\ line.columns = "all"
    /\ line.long /\ line.md /\ line.passes /\ line.converts

\* the lines 1..n of the file that hold a well-formed read, in file order
WellFormedUpTo(n) ==
    LET well_formed(i) == SamLineWellFormed(sam_file[i])
    IN  SelectSeq([i \in 1..n |-> i], well_formed)

C18_NoZeroLengthEdge ==
    /\ \A id \in DOMAIN exon_tree : exon_tree[id].start # exon_tree[id].end
    /\ \A id \in DOMAIN intron_tree : intron_tree[id].start # intron_tree[id].end

\* |5' delta| + |3' delta| of a read against known transcript t
EndDistance(read, t) == Abs(read.start - transcripts[t].start) + Abs(read.end - transcripts[t].end)

\* C19: the best full match of a read is the one of its full matches with
\* the least |5' delta| + |3' delta|, the lowest identifier among those of
\* equal sum; this names one transcript, so the choice is a function of the
\* read and the set of full matches and of no order of the table.
C19_BestFullMatchMinimizesDeltas ==
    [][ReadStep =>
        /\ ReadOfStep.best_match \in ReadOfStep.full_matches
        /\ ReadOfStep.transcript_ID = ReadOfStep.best_match
        /\ \A u \in ReadOfStep.full_matches :
            \/ EndDistance(ReadOfStep, ReadOfStep.best_match) < EndDistance(ReadOfStep, u)
            \/ /\ EndDistance(ReadOfStep, ReadOfStep.best_match) = EndDistance(ReadOfStep, u)
               /\ ReadOfStep.best_match <= u]_vars

\* C19, its cases: of two full matches the one of the higher identifier was
\* chosen for its smaller sum, and of two full matches of equal sum, off
\* the read's ends, the lower was chosen
C19_Witness ==
    /\ \E i \in 1..Len(all_sam_transcripts) : \E u \in all_sam_transcripts[i].full_matches :
        /\ u < all_sam_transcripts[i].best_match
        /\ EndDistance(all_sam_transcripts[i], all_sam_transcripts[i].best_match) < EndDistance(all_sam_transcripts[i], u)
    /\ \E i \in 1..Len(all_sam_transcripts) : \E u \in all_sam_transcripts[i].full_matches :
        /\ u > all_sam_transcripts[i].best_match
        /\ EndDistance(all_sam_transcripts[i], u) = EndDistance(all_sam_transcripts[i], all_sam_transcripts[i].best_match)
        /\ EndDistance(all_sam_transcripts[i], u) > 0

\* the bases by which a read reaches past the 3' end of a transcript: the
\* 3' end is the end on "+", the start on "-"
PastEnd3(read, t) == IF read.strand = "+" THEN read.end - t.end ELSE t.start - read.start

\* the bases by which a read reaches past the 5' end of a transcript
PastEnd5(read, t) == IF read.strand = "+" THEN t.start - read.start ELSE read.end - t.end

\* the observed-read rows staged for a read
ObservedOf(read) ==
    {novel_ids["observed"][k] : k \in {j \in DOMAIN novel_ids["observed"] :
        novel_ids["observed"][j].read_name = read.identifier /\ novel_ids["observed"][j].dataset = read.dataset}}

\* C20: on either strand a read reaching k bases past the 3' end of its
\* assigned transcript is recorded with diff_3 = k, one reaching k bases
\* past the 5' end with diff_5 = k, on the read and in its observed row.
C20_DeltaSignSameOnBothStrands ==
    \A i \in 1..Len(all_sam_transcripts) :
        \A read \in {all_sam_transcripts[i]} : \A t \in {transcripts[read.transcript_ID]} :
            /\ read.diff_3 = PastEnd3(read, t)
            /\ read.diff_5 = PastEnd5(read, t)
            /\ ObservedOf(read) # {}
            /\ \A row \in ObservedOf(read) : row.end_delta = read.diff_3 /\ row.start_delta = read.diff_5

\* C20, its case: a read of the "-" strand that reaches one base past the
\* 3' end of its transcript, recorded with diff_3 = 1
C20_Witness ==
    \E i \in 1..Len(all_sam_transcripts) :
        /\ all_sam_transcripts[i].strand = "-"
        /\ all_sam_transcripts[i].start = transcripts[all_sam_transcripts[i].transcript_ID].start - 1
        /\ all_sam_transcripts[i].diff_3 = 1
        /\ \E row \in ObservedOf(all_sam_transcripts[i]) : row.end_delta = 1

\* the dataset names staged in this run
StagedDatasetNames == {novel_ids["datasets"][k].dataset_name : k \in DOMAIN novel_ids["datasets"]}

\* C21: no dataset name is staged under two dataset ids, and the datasets
\* counter has grown by the number of distinct names of the run.
C21_DatasetIdsUniquePerName ==
    /\ \A j \in DOMAIN novel_ids["datasets"] : \A k \in DOMAIN novel_ids["datasets"] :
         novel_ids["datasets"][j].dataset_name = novel_ids["datasets"][k].dataset_name => j = k
    /\ counter["datasets"] = db.counters["dataset"] + Cardinality(StagedDatasetNames)

\* C22: without --noUpdate, checkArgs returns no entry, and no SAM file,
\* of a config line whose dataset name is in the dataset table.
C22_ExistingDatasetIgnored ==
    (args_pc = "returned" /\ options.noUpdate = "None") =>
        /\ \A k \in 1..Len(dataset_metadata) : dataset_metadata[k].dataset_name \notin existing_datasets(db)
        /\ \A k \in 1..Len(sam_files) : config_file[sam_files[k]].dataname \notin existing_datasets(db)

DatasetStep == n_datasets' = n_datasets + 1

\* the reads before the read of a step that have its chromosome, strand
\* and exons
EarlierSameReads ==
    {i \in 1..Len(all_sam_transcripts) :
        /\ all_sam_transcripts[i].chromosome = ReadOfStep.chromosome
        /\ all_sam_transcripts[i].strand = ReadOfStep.strand
        /\ all_sam_transcripts[i].exons = ReadOfStep.exons}

\* C24: the datasets get consecutive ids, the datasets counter + 1, in the
\* order they are started, and what was staged for earlier datasets stays;
\* a read is of the dataset started last, goes behind the reads processed
\* before it, which stay as they were, and is matched against what those
\* reads left: a read with the chromosome, strand and exons of an earlier
\* read is a full match of the transcript that read was assigned.
C24_StrictlySequential ==
    [][/\ DatasetStep =>
            /\ counter'["datasets"] = counter["datasets"] + 1
            /\ DOMAIN novel_ids'["datasets"] = DOMAIN novel_ids["datasets"] \cup {counter["datasets"] + 1}
            /\ counter["datasets"] + 1 \notin DOMAIN novel_ids["datasets"]
            /\ novel_ids'["datasets"][counter["datasets"] + 1].dataset_ID = counter["datasets"] + 1
            /\ novel_ids'["datasets"][counter["datasets"] + 1].dataset_name = dataset'
            /\ \A k \in DOMAIN novel_ids["datasets"] : k <= counter["datasets"] /\ novel_ids'["datasets"][k] = novel_ids["datasets"][k]
            /\ all_sam_transcripts' = all_sam_transcripts
       /\ ReadStep =>
            /\ SubSeq(all_sam_transcripts', 1, Len(all_sam_transcripts)) = all_sam_transcripts
            /\ ReadOfStep.dataset = dataset /\ dataset' = dataset
            /\ novel_ids["datasets"][counter["datasets"]].dataset_name = dataset
            /\ ReadOfStep.identifier = Len(all_sam_transcripts) + 1
            /\ \A i \in EarlierSameReads :
                /\ ReadOfStep.match_type = "full"
                /\ ReadOfStep.novel = "Seen_previously"
                /\ ReadOfStep.transcript_ID = all_sam_transcripts[i].transcript_ID
                /\ counter'["transcripts"] = counter["transcripts"]]_vars

\* C24, its case: two datasets were started, the second got the id after
\* the first, and its read is a full match of the transcript minted for the
\* read of the first dataset
C24_Witness ==
    /\ n_datasets = 2
    /\ Len(all_sam_transcripts) = 2
    /\ all_sam_transcripts[1].dataset # all_sam_transcripts[2].dataset
    /\ all_sam_transcripts[1].novel = "Novel"
    /\ all_sam_transcripts[1].n_exons = 2
    /\ all_sam_transcripts[2].exons = all_sam_transcripts[1].exons
    /\ all_sam_transcripts[2].match_type = "full"
    /\ all_sam_transcripts[2].transcript_ID = all_sam_transcripts[1].transcript_ID
    /\ all_sam_transcripts[1].transcript_ID \in DOMAIN novel_ids["transcripts"]
    /\ \E j \in DOMAIN novel_ids["datasets"] : j + 1 \in DOMAIN novel_ids["datasets"]

\* C25: at every commit of populate_db and at its end, the counters of
\* genes, transcripts, vertex and edge equal the numbers of rows of the
\* tables of those names, and no two rows of a table share an id.
C25_InitCountersMatchTables ==
    /\ \A c \in {"genes", "transcripts", "vertex", "edge"} : db.counters[c] = Cardinality(db.tables[c])
    /\ Cardinality({g.gene_ID : g \in db.tables["genes"]}) = Cardinality(db.tables["genes"])
    /\ Cardinality({t.transcript_id : t \in db.tables["transcripts"]}) = Cardinality(db.tables["transcripts"])
    /\ Cardinality({v.vertex_ID : v \in db.tables["vertex"]}) = Cardinality(db.tables["vertex"])
    /\ Cardinality({e.edge_ID : e \in db.tables["edge"]}) = Cardinality(db.tables["edge"])

\* C25, its case: two chromosomes were committed and the connection is
\* closed, each left genes, transcripts, vertices and edges
C25_Witness ==
    /\ populate_pc = "closed"
    /\ chrom_pos = 2
    /\ \E v \in db.tables["location"] : v.chromosome = "chr1"
    /\ \E v \in db.tables["location"] : v.chromosome = "chr2"
    /\ db.counters["edge"] > 3
    /\ db.counters["genes"] > 2

\* the five fields a call of create_vertex is made with
VertexKey(call) == <<call.gene_id, call.genome_build, call.chromosome, call.pos, call.strand>>

\* C26: over the calls of create_vertex on one dictionary, two calls return
\* the same vertex id exactly when they have the same gene, build,
\* chromosome, position and strand; a call with a key seen before leaves the
\* dictionary and its counter as they were; a call with a new key returns
\* counter + 1, raises the counter by one and stores that one vertex; so one
\* coordinate under two genes has two vertex ids
C26_CreateVertexDedupGeneScoped ==
    /\ \A i, j \in DOMAIN vertex_calls :
         (vertex_calls[i].id = vertex_calls[j].id) <=> (VertexKey(vertex_calls[i]) = VertexKey(vertex_calls[j]))
    /\ \A i \in DOMAIN vertex_calls :
         LET call == vertex_calls[i]
             new_vertex == [vertex_ID |-> call.id, gene_id |-> call.gene_id, genome_build |-> call.genome_build,
                            chromosome |-> call.chromosome, pos |-> call.pos, strand |-> call.strand]
         IN  IF \E j \in 1..(i - 1) : VertexKey(vertex_calls[j]) = VertexKey(call)
             THEN call.after = call.before
             ELSE /\ call.id = call.before.counter + 1
                  /\ call.after.counter = call.before.counter + 1
                  /\ call.after.rows = call.before.rows \cup {new_vertex}
    /\ \A i, j \in DOMAIN vertex_calls :
         LET a == vertex_calls[i]
             b == vertex_calls[j]
         IN  (a.gene_id # b.gene_id /\ a.chromosome = b.chromosome /\ a.pos = b.pos /\ a.strand = b.strand)
                 => a.id # b.id
    /\ (vertex_calls # <<>>) => init_vertices = vertex_calls[Len(vertex_calls)].after

\* a key, the same key again, then its coordinate under the other gene, on a
\* dictionary whose counter starts at 3
C26_Witness ==
    /\ Len(vertex_calls) = 3
    /\ vertex_calls[1].before = [counter |-> 3, rows |-> {}]
    /\ VertexKey(vertex_calls[2]) = VertexKey(vertex_calls[1])
    /\ vertex_calls[3].gene_id # vertex_calls[1].gene_id
    /\ vertex_calls[3].chromosome = vertex_calls[1].chromosome
    /\ vertex_calls[3].pos = vertex_calls[1].pos
    /\ vertex_calls[3].strand = vertex_calls[1].strand
    /\ vertex_calls[1].id = 4
    /\ vertex_calls[2].id = 4
    /\ vertex_calls[3].id = 5
    /\ init_vertices.counter = 5

\* the three fields a call of create_edge is made with
EdgeKey(call) == <<call.v1, call.v2, call.edge_type>>

\* the keys of the calls of create_edge made so far
EdgeKeysCreated == {EdgeKey(edge_calls[i]) : i \in DOMAIN edge_calls}

\* C27: over the calls of create_edge on one dictionary, two calls return the
\* same edge id exactly when they have the same v1, v2 and edge type; a call
\* with a key seen before leaves the dictionary and its counter as they were;
\* a call with a new key returns counter + 1 and stores that one edge; the
\* counter is its first value plus the number of distinct keys, and no two
\* stored edges have one key
C27_CreateEdgeIdempotentOnKey ==
    /\ \A i, j \in DOMAIN edge_calls :
         (edge_calls[i].id = edge_calls[j].id) <=> (EdgeKey(edge_calls[i]) = EdgeKey(edge_calls[j]))
    /\ \A i \in DOMAIN edge_calls :
         LET call == edge_calls[i]
             new_edge == [edge_ID |-> call.id, v1 |-> call.v1, v2 |-> call.v2, edge_type |-> call.edge_type]
         IN  IF \E j \in 1..(i - 1) : EdgeKey(edge_calls[j]) = EdgeKey(call)
             THEN call.after = call.before
             ELSE /\ call.id = call.before.counter + 1
                  /\ call.after.counter = call.before.counter + 1
                  /\ call.after.rows = call.before.rows \cup {new_edge}
    /\ (edge_calls # <<>>) =>
         /\ init_edges = edge_calls[Len(edge_calls)].after
         /\ init_edges.counter = edge_calls[1].before.counter + Cardinality(EdgeKeysCreated)
    /\ \A e1, e2 \in init_edges.rows : (EdgeKey(e1) = EdgeKey(e2)) => e1 = e2
    /\ Cardinality(init_edges.rows) = Cardinality(EdgeKeysCreated)

\* an exon edge, the intron edge of the same two vertices, then the exon edge
\* again, on a dictionary whose counter starts at 3
C27_Witness ==
    /\ Len(edge_calls) = 3
    /\ edge_calls[1].before = [counter |-> 3, rows |-> {}]
    /\ edge_calls[1].edge_type = "exon"
    /\ edge_calls[2].edge_type = "intron"
    /\ edge_calls[2].v1 = edge_calls[1].v1
    /\ edge_calls[2].v2 = edge_calls[1].v2
    /\ EdgeKey(edge_calls[3]) = EdgeKey(edge_calls[1])
    /\ edge_calls[1].id = 4
    /\ edge_calls[2].id = 5
    /\ edge_calls[3].id = 4
    /\ init_edges.counter = 5

\* the attributes of a Transcript other than its exons
OtherAttributes(self) == <<self.chromosome, self.start, self.end, self.strand, self.identifier, self.name, self.gene_id>>

\* C28: add_exon raises ValueError when the start lies after the end and
\* leaves the exons list as it was; otherwise it raises nothing and puts
\* exactly start, end at the end of the exons list; no other attribute of
\* the transcript changes in either case
C28_AddExonAppendsOrRaises ==
    \A i \in DOMAIN add_exon_calls :
        LET call == add_exon_calls[i]
        IN  (call.method = "add_exon") =>
                /\ (call.exon_start > call.exon_end) =>
                      (call.raised = "ValueError" /\ call.after.exons = call.before.exons)
                /\ (call.exon_start <= call.exon_end) =>
                      (call.raised = "None" /\ call.after.exons = call.before.exons \o <<call.exon_start, call.exon_end>>)
                /\ OtherAttributes(call.after) = OtherAttributes(call.before)
                /\ (i = Len(add_exon_calls)) => currTranscript = call.after

\* an exon, a refused exon, then a one-base exon lying before the first
C28_Witness ==
    /\ Len(add_exon_calls) = 3
    /\ \A i \in 1..3 : add_exon_calls[i].method = "add_exon"
    /\ add_exon_calls[1].raised = "None"
    /\ add_exon_calls[2].exon_start > add_exon_calls[2].exon_end
    /\ add_exon_calls[2].raised = "ValueError"
    /\ add_exon_calls[3].exon_start = add_exon_calls[3].exon_end
    /\ add_exon_calls[3].raised = "None"
    /\ currTranscript.exons = <<2, 3, 1, 1>>

\* C29: after any calls of add_exon that raised nothing, the exons list holds
\* the start and end positions in ascending order
C29_ExonsSorted ==
    (\A i \in DOMAIN add_exon_calls : add_exon_calls[i].raised = "None") =>
        \A i, j \in DOMAIN currTranscript.exons : (i < j) => currTranscript.exons[i] <= currTranscript.exons[j]

\* the length of a transcript of the transcripts dictionary passed in
LengthOf(transcript_id) == get_length(gtf_transcripts[transcript_id].exons, 1)

\* C30: filter_by_length returns exactly the transcripts whose length is at
\* least min_length, each as it was passed in, and exactly the genes of the
\* genes dictionary that are the gene of a returned transcript, each as it
\* was passed in; the two dictionaries passed in are never changed
C30_FilterByLengthKeepsLongEnough ==
    /\ [](filter_pc = "returned" =>
            /\ DOMAIN filtered_transcripts = {t \in DOMAIN gtf_transcripts : LengthOf(t) >= min_length}
            /\ \A t \in DOMAIN filtered_transcripts : filtered_transcripts[t] = gtf_transcripts[t]
            /\ DOMAIN filtered_genes =
                   {g \in DOMAIN gtf_genes : \E t \in DOMAIN filtered_transcripts : filtered_transcripts[t].gene_id = g}
            /\ \A g \in DOMAIN filtered_genes : filtered_genes[g] = gtf_genes[g])
    /\ [][gtf_genes' = gtf_genes /\ gtf_transcripts' = gtf_transcripts]_vars

\* of two genes with one transcript each, the transcript as long as
\* min_length is returned with its gene, the shorter one and its gene are not
C30_Witness ==
    /\ filter_pc = "returned"
    /\ DOMAIN gtf_genes = {"gA", "gB"}
    /\ DOMAIN gtf_transcripts = {"t1", "t2"}
    /\ gtf_transcripts["t1"].gene_id = "gA"
    /\ gtf_transcripts["t2"].gene_id = "gB"
    /\ LengthOf("t1") = min_length
    /\ LengthOf("t2") < min_length
    /\ DOMAIN filtered_transcripts = {"t1"}
    /\ DOMAIN filtered_genes = {"gA"}

\* the tracker's full-match set for the read of a step, on the structures
\* the read was matched against
FullOfStep ==
    full_matches(ReadOfStep, match_all_edges(ReadOfStep, exon_tree, intron_tree), transcripts, exon_tree, intron_tree)

\* the tracker's partial-match set for the read of a step
PartialOfStep ==
    partial_matches(ReadOfStep, match_all_edges(ReadOfStep, exon_tree, intron_tree), transcripts, exon_tree, intron_tree)

\* C31: find_transcript_match ends in one of full, partial, none: full
\* exactly when the full-match set is not empty, partial exactly when that
\* set is empty and the partial-match set is not, none otherwise; the
\* differences are [None, None] unless the state is full; in state none the
\* match is no transcript, in the other two it is one of the set
C31_MatchEndsFullPartialOrNone ==
    [][ReadStep =>
        /\ ReadOfStep.match_type \in {"full", "partial", "none"}
        /\ (ReadOfStep.match_type = "full") <=> (FullOfStep # {})
        /\ (ReadOfStep.match_type = "partial") <=> (FullOfStep = {} /\ PartialOfStep # {})
        /\ (ReadOfStep.match_type = "none") <=> (FullOfStep = {} /\ PartialOfStep = {})
        /\ (ReadOfStep.match_type # "full") => ReadOfStep.match_diff = <<"None", "None">>
        /\ (ReadOfStep.match_type = "full") => ReadOfStep.best_match \in FullOfStep
        /\ (ReadOfStep.match_type = "partial") => ReadOfStep.best_match \in PartialOfStep
        /\ (ReadOfStep.match_type = "none") => ReadOfStep.best_match \notin DOMAIN transcripts]_vars

\* two reads of one dataset, the first without any match and the second a
\* partial match of a transcript of the annotation
C31_Witness ==
    /\ Len(all_sam_transcripts) = 2
    /\ all_sam_transcripts[1].match_type = "none"
    /\ all_sam_transcripts[1].best_match = None
    /\ all_sam_transcripts[2].match_type = "partial"
    /\ all_sam_transcripts[2].best_match \in 1..db.counters["transcripts"]
    /\ all_sam_transcripts[2].match_diff = <<"None", "None">>

\* the read of a step was given a novel transcript
NovelReadStep == ReadStep /\ ReadOfStep.novel = "Novel"

\* the edge matches make_novel_transcript is called with for the read of a
\* step without a full match
EdgeMatchesOfStep == get_best_edge_matches(match_all_edges(ReadOfStep, exon_tree, intron_tree))

\* the path of the transcript made for the read of a step
PathOfStep == transcript_all_edges(transcripts'[ReadOfStep.transcript_ID])

\* query edges i of the read of a step whose edge match names an edge of
\* the index that belongs to the read's gene
ReusedOfStep ==
    {i \in DOMAIN EdgeMatchesOfStep :
        LET tree == TreeOf(i, exon_tree, intron_tree)
        IN  EdgeMatchesOfStep[i] \in DOMAIN tree /\ tree[EdgeMatchesOfStep[i]].gene_id = ReadOfStep.gene_ID}

\* C32: in make_novel_transcript, a query edge whose edge match names an
\* edge of the index that belongs to the read's gene takes that edge, which
\* gets the new transcript id and is not staged; every other query edge
\* takes one new edge of the read's gene at its coordinates, staged in
\* novel_ids['edges'] and put in the index; the edges counter grows by the
\* number of the latter; edges at even 0-based indices are exons, the others
\* introns
C32_NovelTranscriptReusesOrMints ==
    [][NovelReadStep =>
        /\ Len(PathOfStep) = Len(EdgeMatchesOfStep)
        /\ \A i \in DOMAIN PathOfStep :
             LET tree == TreeOf(i, exon_tree, intron_tree)
                 tree_after == TreeOf(i, exon_tree', intron_tree')
                 query_edge == get_all_edges(ReadOfStep)[i]
                 e == PathOfStep[i]
             IN  /\ e \in DOMAIN tree_after
                 /\ ReadOfStep.transcript_ID \in tree_after[e].transcript_ids
                 /\ tree_after[e].gene_id = ReadOfStep.gene_ID
                 /\ tree_after[e].start = query_edge.start /\ tree_after[e].end = query_edge.end
                 /\ IF i \in ReusedOfStep
                    THEN /\ e = EdgeMatchesOfStep[i]
                         /\ tree_after[e].transcript_ids = tree[e].transcript_ids \cup {ReadOfStep.transcript_ID}
                         /\ e \notin DOMAIN novel_ids'["edges"] \ DOMAIN novel_ids["edges"]
                    ELSE /\ e \notin DOMAIN exon_tree \cup DOMAIN intron_tree
                         /\ e \in DOMAIN novel_ids'["edges"] \ DOMAIN novel_ids["edges"]
                         /\ novel_ids'["edges"][e].edge_type = IF i % 2 = 1 THEN "exon" ELSE "intron"
                         /\ \A j \in DOMAIN PathOfStep : (j # i) => PathOfStep[j] # e
        /\ counter'["edges"] = counter["edges"] + Len(PathOfStep) - Cardinality(ReusedOfStep)
        /\ Cardinality(DOMAIN novel_ids'["edges"]) = Cardinality(DOMAIN novel_ids["edges"]) + Len(PathOfStep) - Cardinality(ReusedOfStep)
        /\ DOMAIN exon_tree' \cup DOMAIN intron_tree' = DOMAIN exon_tree \cup DOMAIN intron_tree \cup DOMAIN novel_ids'["edges"]]_vars

\* a read of two exons whose transcript took a known exon of its gene and
\* a new intron and a new second exon
C32_Witness ==
    \E i \in DOMAIN all_sam_transcripts :
        LET read == all_sam_transcripts[i]
        IN  /\ read.novel = "Novel"
            /\ read.n_exons = 2
            /\ read.transcript_ID \in DOMAIN transcripts
            /\ transcripts[read.transcript_ID].exons[1] <= db.counters["edge"]
            /\ transcripts[read.transcript_ID].introns[1] \in DOMAIN novel_ids["edges"]
            /\ transcripts[read.transcript_ID].exons[2] \in DOMAIN novel_ids["edges"]
            /\ novel_ids["edges"][transcripts[read.transcript_ID].introns[1]].edge_type = "intron"
            /\ novel_ids["edges"][transcripts[read.transcript_ID].exons[2]].edge_type = "exon"

\* C33: what was minted for a read is in place before the next read is
\* matched: the transcript of a read flagged Novel is in the transcript
\* table and staged in novel_ids['transcripts'] under the read's transcript
\* id; the read's gene is in the gene index, and a gene minted in the run is
\* staged in novel_ids['genes'] under its id; a later read with the
\* chromosome, strand and exons of an earlier read takes that read's gene
\* and transcript and mints no gene and no transcript
C33_MintedVisibleToNextRead ==
    /\ [](\A i \in DOMAIN all_sam_transcripts :
            LET read == all_sam_transcripts[i]
            IN  /\ read.gene_ID \in DOMAIN gene_tree
                /\ gene_tree[read.gene_ID].identifier = read.gene_ID
                /\ read.transcript_ID \in DOMAIN transcripts
                /\ transcripts[read.transcript_ID].identifier = read.transcript_ID
                /\ transcripts[read.transcript_ID].gene_id = read.gene_ID
                /\ (read.gene_ID > db.counters["genes"]) =>
                      /\ read.gene_ID \in DOMAIN novel_ids["genes"]
                      /\ novel_ids["genes"][read.gene_ID].gene_ID = read.gene_ID
                /\ (read.novel = "Novel") =>
                      /\ read.transcript_ID \in DOMAIN novel_ids["transcripts"]
                      /\ novel_ids["transcripts"][read.transcript_ID].transcript_id = read.transcript_ID
                      /\ novel_ids["transcripts"][read.transcript_ID].gene_id = read.gene_ID)
    /\ [](DOMAIN novel_ids["genes"] \subseteq DOMAIN gene_tree /\ DOMAIN novel_ids["transcripts"] \subseteq DOMAIN transcripts)
    /\ [][ReadStep => \A i \in EarlierSameReads :
            /\ ReadOfStep.gene_ID = all_sam_transcripts[i].gene_ID
            /\ ReadOfStep.transcript_ID = all_sam_transcripts[i].transcript_ID
            /\ ReadOfStep.novel = "Seen_previously"
            /\ counter'["genes"] = counter["genes"] /\ counter'["transcripts"] = counter["transcripts"]
            /\ novel_ids'["genes"] = novel_ids["genes"] /\ novel_ids'["transcripts"] = novel_ids["transcripts"]
            /\ gene_tree' = gene_tree /\ transcripts' = transcripts]_vars

\* a read of two exons got a gene and a transcript minted for it, and the
\* next read, with the same exons, got both
C33_Witness ==
    /\ Len(all_sam_transcripts) = 2
    /\ all_sam_transcripts[1].novel = "Novel"
    /\ all_sam_transcripts[1].n_exons = 2
    /\ all_sam_transcripts[1].gene_ID \in DOMAIN novel_ids["genes"]
    /\ all_sam_transcripts[1].transcript_ID \in DOMAIN novel_ids["transcripts"]
    /\ all_sam_transcripts[2].exons = all_sam_transcripts[1].exons
    /\ all_sam_transcripts[2].strand = all_sam_transcripts[1].strand
    /\ all_sam_transcripts[2].novel = "Seen_previously"
    /\ all_sam_transcripts[2].gene_ID = all_sam_transcripts[1].gene_ID
    /\ all_sam_transcripts[2].transcript_ID = all_sam_transcripts[1].transcript_ID
    /\ Cardinality(DOMAIN novel_ids["genes"]) = 1
    /\ Cardinality(DOMAIN novel_ids["transcripts"]) = 1

\* the ids a step minted in a category: the keys its staging table gained
MintedInStep(key) == DOMAIN novel_ids'[key] \ DOMAIN novel_ids[key]

\* the ids of a category the run started with: the rows of the database
IdsAtStart(key) ==
    CASE key = "genes" -> {row.gene_ID : row \in db.tables["genes"]}
      [] key = "transcripts" -> {row.transcript_id : row \in db.tables["transcripts"]}
      [] key = "vertices" -> {row.vertex_ID : row \in db.tables["vertex"]}
      [] key = "edges" -> {row.edge_ID : row \in db.tables["edge"]}
      [] key = "datasets" -> {row.dataset_ID : row \in db.tables["dataset"]}
      [] key = "observed" -> {row.obs_ID : row \in db.tables["observed"]}

\* C34: while datasets and reads are processed no counter decreases; a
\* counter grows by one for each entity minted in its category and by
\* nothing else, and the ids minted are the values the counter takes, so
\* the ids minted in a run differ within a category and lie above every id
\* the run started with
C34_CountersMonotoneIdsFresh ==
    /\ [][pc = "identify" => \A key \in CounterKeys :
            /\ counter'[key] >= counter[key]
            /\ DOMAIN novel_ids[key] \subseteq DOMAIN novel_ids'[key]
            /\ MintedInStep(key) = (counter[key] + 1)..counter'[key]]_vars
    /\ [](pc = "identify" => \A key \in CounterKeys :
            /\ DOMAIN novel_ids[key] = (db.counters[CategoryOf(key)] + 1)..counter[key]
            /\ \A id \in DOMAIN novel_ids[key] : \A known \in IdsAtStart(key) : id > known)
    /\ [](pc = "identify" =>
            /\ \A id \in DOMAIN novel_ids["genes"] : novel_ids["genes"][id].gene_ID = id
            /\ \A id \in DOMAIN novel_ids["transcripts"] : novel_ids["transcripts"][id].transcript_id = id
            /\ \A id \in DOMAIN novel_ids["vertices"] : novel_ids["vertices"][id].vertex_ID = id
            /\ \A id \in DOMAIN novel_ids["edges"] : novel_ids["edges"][id].edge_ID = id
            /\ \A id \in DOMAIN novel_ids["datasets"] : novel_ids["datasets"][id].dataset_ID = id
            /\ \A id \in DOMAIN novel_ids["observed"] : novel_ids["observed"][id].obs_ID = id)

\* on a database with genes, transcripts, vertices and edges, two datasets
\* with a read each, the reads having minted two genes, two transcripts,
\* edges and vertices
C34_Witness ==
    /\ \A key \in {"genes", "transcripts", "vertices", "edges"} : db.counters[CategoryOf(key)] > 0
    /\ counter["datasets"] = db.counters["dataset"] + 2
    /\ counter["observed"] = db.counters["observed"] + 2
    /\ counter["genes"] = db.counters["genes"] + 2
    /\ counter["transcripts"] = db.counters["transcripts"] + 2
    /\ counter["edges"] >= db.counters["edge"] + 2
    /\ counter["vertices"] >= db.counters["vertex"] + 4

\* C35: until the commit, the number of rows staged in each category is the
\* in-memory counter of the category minus the counter the database holds,
\* from which it was loaded; so in a flush in which no insert failed the
\* integrity check finds every counter equal to its table's row count and
\* does not raise
C35_StagingInStepWithCounters ==
    /\ [](pc # "done" => \A key \in CounterKeys :
            Cardinality(DOMAIN novel_ids[key]) = counter[key] - db.counters[CategoryOf(key)])
    /\ []((pc = "check" /\ failures = 0) => integrity_ok(cursor))
    /\ [](pc = "raised" => failures > 0)

\* a flush without a failed insert passed the check with rows staged in all
\* six categories
C35_Witness ==
    /\ pc = "commit"
    /\ failures = 0
    /\ \A key \in CounterKeys : DOMAIN novel_ids[key] # {}
    /\ \A key \in CounterKeys : Cardinality(cursor.tables[CategoryOf(key)]) = counter[key]

\* the ids of the vertices of a gene at a position of a chromosome
VertexIdsAt(chromosome, pos, gene_id) == {v.identifier : v \in fetch_vertex(vertices, chromosome, pos, gene_id)}

\* C36: the observed record of a read names the gene and the transcript of
\* the transcript the read was assigned; its start vertex is the vertex of
\* the read's gene at the start coordinate of that transcript and its end
\* vertex the one at the end coordinate when the read is on "+", and the
\* other way round when it is on "-"
C36_ObservedVerticesFollowStrand ==
    \A i \in DOMAIN all_sam_transcripts :
        LET read == all_sam_transcripts[i]
            t == transcripts[read.transcript_ID]
            at_start == VertexIdsAt(t.chromosome, t.start, read.gene_ID)
            at_end == VertexIdsAt(t.chromosome, t.end, read.gene_ID)
        IN  /\ Cardinality(ObservedOf(read)) = 1
            /\ Cardinality(at_start) = 1 /\ Cardinality(at_end) = 1
            /\ \A row \in ObservedOf(read) :
                 /\ row.gene_ID = t.gene_id
                 /\ row.transcript_ID = t.identifier
                 /\ (read.strand = "+") => (row.start_vertex_ID \in at_start /\ row.end_vertex_ID \in at_end)
                 /\ (read.strand = "-") => (row.start_vertex_ID \in at_end /\ row.end_vertex_ID \in at_start)

\* a read on "-" and a read on "+", each assigned a transcript of two exons:
\* the first recorded from the vertex at the end coordinate to the one at the
\* start coordinate, the second the other way round
C36_Witness ==
    /\ Len(all_sam_transcripts) = 2
    /\ all_sam_transcripts[1].strand = "-"
    /\ all_sam_transcripts[2].strand = "+"
    /\ \A i \in 1..2 :
         LET read == all_sam_transcripts[i]
             t == transcripts[read.transcript_ID]
         IN  /\ t.n_exons = 2
             /\ \A row \in ObservedOf(read) :
                  /\ row.start_vertex_ID # row.end_vertex_ID
                  /\ row.start_vertex_ID \in VertexIdsAt(t.chromosome, IF i = 1 THEN t.end ELSE t.start, read.gene_ID)


\* the boundary coordinates of a transcript in path order: start and end of
\* every exon, from the highest coordinate on the minus strand
ExonBoundaries(transcript) ==
    LET flat == [j \in 1..(2 * Len(transcript.exons)) |->
                    transcript.exons[(j + 1) \div 2][IF j % 2 = 1 THEN 1 ELSE 2]]
    IN  IF transcript.strand = "-" THEN Reverse(flat) ELSE flat

\* the exons of a transcript in path order
ExonsInPathOrder(transcript) ==
    IF transcript.strand = "-" THEN Reverse(transcript.exons) ELSE transcript.exons

\* the positions the location table gives a vertex on a chromosome
PositionsOfVertex(database, chromosome, vertex_ID) ==
    {l.position : l \in {m \in database.tables["location"] : m.location_id = vertex_ID /\ m.chromosome = chromosome}}

\* the path written for a transcript of n exons: 2n - 1 edges, exon and
\* intron alternating from an exon, edge j between boundaries j and j + 1,
\* exon annotations on the exon edges and on no intron edge
PathOfTranscript(database, transcript, path) ==
    LET n == Len(transcript.exons)
        bounds == ExonBoundaries(transcript)
        exons == ExonsInPathOrder(transcript)
    IN  /\ Len(path) = 2 * n - 1
        /\ \A j \in 1..Len(path) :
            LET stored == {e \in database.tables["edge"] : e.edge_ID = path[j]}
            IN  /\ Cardinality(stored) = 1
                /\ \A e \in stored :
                    /\ e.edge_type = (IF j % 2 = 1 THEN "exon" ELSE "intron")
                    /\ PositionsOfVertex(database, transcript.chromosome, e.v1) = {bounds[j]}
                    /\ PositionsOfVertex(database, transcript.chromosome, e.v2) = {bounds[j + 1]}
                /\ j % 2 = 1 => [ID |-> path[j], exon |-> exons[(j + 1) \div 2]] \in database.tables["exon_annotations"]
                /\ j % 2 = 0 => \A a \in database.tables["exon_annotations"] : a.ID # path[j]
        /\ transcript.strand = "-" => \A j \in 1..(Len(bounds) - 1) : bounds[j] >= bounds[j + 1]
        /\ transcript.strand = "+" => \A j \in 1..(Len(bounds) - 1) : bounds[j] <= bounds[j + 1]

TranscriptsListing(identifier) ==
    {gtf_file[k].transcript_id : k \in {l \in 1..gtf_line : gtf_file[l].type = "exon"
                                          /\ create_edge_from_gtf(gtf_file[l]).identifier = identifier}}

\* C38: when exon entries with the same exon identifier occur for several
\* transcripts, the stored exon entry is updated, not replaced: after the
\* whole file is read its transcript-id set contains every transcript that
\* listed that exon
C38_ExonKeepsEveryTranscript ==
    gtf_line = Len(gtf_file) =>
        \A identifier \in DOMAIN gtf_exons :
            TranscriptsListing(identifier) \subseteq gtf_exons[identifier].transcript_ids

\* what read_gtf_file leaves instead: the stored exon is the exon of the
\* last entry with that identifier, with that entry's transcript alone
C38_ExonOfLastEntryOnly ==
    \A identifier \in DOMAIN gtf_exons :
        LET listed == {l \in 1..gtf_line : gtf_file[l].type = "exon" /\ create_edge_from_gtf(gtf_file[l]).identifier = identifier}
        IN  /\ listed # {}
            /\ gtf_exons[identifier].transcript_ids = {gtf_file[SetMax(listed)].transcript_id}


\* the batches of a list of calls, one after the other
RECURSIVE Concatenated(_)
Concatenated(batches) ==
    IF batches = <<>> THEN <<>> ELSE Head(batches) \o Concatenated(Tail(batches))

\* ceil(n / b)
CeilDiv(n, b) == (n + b - 1) \div b

\* C39: for every staged list of n rows and every batch size b >= 1 the
\* loop ends after ceil(n / b) passes, every batch holds at most b rows,
\* and the batches in issue order are the staged list, every row once;
\* with n = 0 no insert is issued
C39_BatchesCoverStagedList ==
    LET n == Len(loop_entries)
        b == loop_batch_size
    IN  /\ \A k \in DOMAIN loop_calls : Len(loop_calls[k]) >= 1 /\ Len(loop_calls[k]) <= b
        /\ Len(loop_calls) <= CeilDiv(n, b)
        /\ Concatenated(loop_calls) = SubSeq(loop_entries, 1, IF loop_index < n THEN loop_index ELSE n)
        /\ (loop_pc = "loop" /\ Len(loop_calls) < CeilDiv(n, b)) => ENABLED BatchIteration
        /\ loop_pc = "returned" =>
            /\ Len(loop_calls) = CeilDiv(n, b)
            /\ Concatenated(loop_calls) = loop_entries
            /\ loop_calls = Batches(loop_entries, 0, b)
            /\ n = 0 => loop_calls = <<>>

\* a list of four rows has gone out in batches of three: two passes, the
\* second batch with the one row left
C39_Witness ==
    /\ loop_pc = "returned"
    /\ Len(loop_entries) = 4
    /\ loop_batch_size = 3
    /\ Len(loop_calls) = 2
    /\ Len(loop_calls[2]) = 1


\* C40: on a database created by add_counter_table, get_counters succeeds
\* for all six categories it reads, and after update_counter(counter) a
\* following get_counters returns a dictionary equal to counter
C40_CountersRoundTrip ==
    /\ counters_pc # "TypeError"
    /\ (counters_pc = "fetched" /\ update_arg # NoEntries) => fetched_counter = update_arg

\* what the table of add_counter_table gives instead: it never has an
\* observed row, no get_counters returns, and the observed count passed to
\* update_counter is stored nowhere
C40_ObservedCounterMissing ==
    /\ "observed" \notin DOMAIN counters_table
    /\ counters_pc # "fetched"
    /\ counters_pc = "updated" =>
        \A key \in CounterKeys \ {"observed"} : counters_table[CategoryOf(key)] = update_arg[key]

================================================================================
